---- MODULE Spec2Model ----
(***************************************************************************)
(* Model of the virtual-path resolver and the copy / move / delete         *)
(* executor of the Electron main process (src/electron/main.mjs).          *)
(*                                                                         *)
(* Strings are sequences of one-character strings, so that startsWith,     *)
(* endsWith, split, slice and the regular expressions of the source are    *)
(* computed character by character.  A real path is a record               *)
(* [drive, segs]; PathResolve gives the string path.resolve returns for it. *)
(***************************************************************************)
EXTENDS Integers, Sequences, FiniteSets, TLC

(***************************************************************************)
(* Characters and string helpers (JavaScript String methods).              *)
(***************************************************************************)
SL == "/"
Sep == "\\"

StartsWith(s, p) == Len(s) >= Len(p) /\ SubSeq(s, 1, Len(p)) = p
EndsWith(s, p) == Len(s) >= Len(p) /\ SubSeq(s, Len(s) - Len(p) + 1, Len(s)) = p
Slice(s, n) == SubSeq(s, n + 1, Len(s))
DropLast(s) == SubSeq(s, 1, Len(s) - 1)

RECURSIVE Concat(_)
Concat(ss) == IF ss = <<>> THEN <<>> ELSE Head(ss) \o Concat(Tail(ss))

\* s.split(c).filter(Boolean): the non-empty runs of s between occurrences of c
RECURSIVE SplitAcc(_, _, _)
SplitAcc(s, c, cur) ==
    IF s = <<>> THEN (IF cur = <<>> THEN <<>> ELSE <<cur>>)
    ELSE IF Head(s) = c
         THEN (IF cur = <<>> THEN <<>> ELSE <<cur>>) \o SplitAcc(Tail(s), c, <<>>)
         ELSE SplitAcc(Tail(s), c, Append(cur, Head(s)))
SplitSegments(s, c) == SplitAcc(s, c, <<>>)

LowerLetters == <<"a","b","c","d","e","f","g","h","i","j","k","l","m",
                  "n","o","p","q","r","s","t","u","v","w","x","y","z">>
UpperLetters == <<"A","B","C","D","E","F","G","H","I","J","K","L","M",
                  "N","O","P","Q","R","S","T","U","V","W","X","Y","Z">>
IsLetter(c) == \E i \in 1..26 : LowerLetters[i] = c \/ UpperLetters[i] = c
ToUpperCase(c) ==
    IF \E i \in 1..26 : LowerLetters[i] = c
    THEN UpperLetters[CHOOSE i \in 1..26 : LowerLetters[i] = c]
    ELSE c

(***************************************************************************)
(* String constants of the source.                                         *)
(***************************************************************************)
LocalScheme == <<"l","o","c","a","l",":","/","/">>
GdriveScheme == <<"g","d","r","i","v","e",":","/","/">>
DropboxScheme == <<"d","r","o","p","b","o","x",":","/","/">>
OnedriveScheme == <<"o","n","e","d","r","i","v","e",":","/","/">>
CombinedScheme == <<"c","o","m","b","i","n","e","d",":","/","/">>
\* the schemes the renderer tells apart (resolveServiceFromPath)
KnownSchemes == {LocalScheme, GdriveScheme, DropboxScheme, OnedriveScheme, CombinedScheme}
ThisPC == <<"T","h","i","s"," ","P","C">>
sDesktop == <<"D","e","s","k","t","o","p">>
sDocuments == <<"D","o","c","u","m","e","n","t","s">>
sDownloads == <<"D","o","w","n","l","o","a","d","s">>
sMusic == <<"M","u","s","i","c">>
sPictures == <<"P","i","c","t","u","r","e","s">>
sVideos == <<"V","i","d","e","o","s">>
sLocalDisk == <<"L","o","c","a","l"," ","D","i","s","k"," ">>
sDrive == <<"D","r","i","v","e"," ">>

\* names used by the environment (the user's files and home directory)
sUsers == <<"U","s","e","r","s">>
sMe == <<"m","e">>
sFoo == <<"f","o","o">>
sFoobar == <<"f","o","o","b","a","r">>
sATxt == <<"a",".","t","x","t">>

(***************************************************************************)
(* Real paths (node:path, win32 flavour).                                  *)
(***************************************************************************)
DriveC == <<"C", ":">>
DriveD == <<"D", ":">>

RealPath(drive, segs) == [drive |-> drive, segs |-> segs]

\* path.normalize on the joined segments: "." is dropped, ".." pops, and
\* ".." at the drive root stays at the root
RECURSIVE NormalizeSegs(_, _)
NormalizeSegs(acc, segs) ==
    IF segs = <<>> THEN acc
    ELSE IF Head(segs) = <<".">> THEN NormalizeSegs(acc, Tail(segs))
    ELSE IF Head(segs) = <<".", ".">>
         THEN NormalizeSegs(IF acc = <<>> THEN acc ELSE DropLast(acc), Tail(segs))
         ELSE NormalizeSegs(Append(acc, Head(segs)), Tail(segs))

\* path.join(base, ...segments); an empty segment is ignored by join
PathJoin(base, segments) ==
    RealPath(base.drive,
             NormalizeSegs(base.segs, SelectSeq(segments, LAMBDA x : x # <<>>)))

\* path.basename: the last segment, the empty string for a drive root
PathBasename(p) == IF p.segs = <<>> THEN <<>> ELSE p.segs[Len(p.segs)]

\* path.dirname: the parent, a drive root is its own parent
PathDirname(p) == IF p.segs = <<>> THEN p ELSE RealPath(p.drive, DropLast(p.segs))

\* the string of an absolute normalized path, as path.resolve returns it:
\* "C:\" for a drive root, "C:\a\b" below it
RECURSIVE JoinWith(_, _)
JoinWith(segs, c) ==
    IF segs = <<>> THEN <<>>
    ELSE IF Len(segs) = 1 THEN Head(segs)
    ELSE Head(segs) \o <<c>> \o JoinWith(Tail(segs), c)
PathResolve(p) == p.drive \o <<Sep>> \o JoinWith(p.segs, Sep)

(***************************************************************************)
(* Module-level constants of main.mjs.                                     *)
(***************************************************************************)
\* os.homedir() of the modelled machine
HomeDir == RealPath(DriveC, <<sUsers, sMe>>)

systemDrive == DriveC
DriveLabel(prefix, drive) == prefix \o <<"(">> \o drive \o <<")">>
systemDriveDisplayName == DriveLabel(sLocalDisk, systemDrive)

\* the driveAliasMap right after module load
InitialDriveAliasMap == (systemDriveDisplayName :> systemDrive)

SpecialFolder(label) ==
    [label |-> label,
     virtual |-> LocalScheme \o label \o <<SL>>,
     fsPath |-> PathJoin(HomeDir, <<label>>)]
specialFolders ==
    << SpecialFolder(sDesktop), SpecialFolder(sDocuments), SpecialFolder(sDownloads),
       SpecialFolder(sMusic), SpecialFolder(sPictures), SpecialFolder(sVideos) >>

normalizeVirtualFolder(virtual) ==
    IF EndsWith(virtual, <<SL>>) THEN virtual ELSE virtual \o <<SL>>

\* virtualPath.replace(/\\+/g, '/'): every run of backslashes becomes one '/'
RECURSIVE sanitizeVirtualPath(_)
sanitizeVirtualPath(s) ==
    IF s = <<>> THEN <<>>
    ELSE IF Head(s) = Sep
         THEN IF Len(s) > 1 /\ s[2] = Sep
              THEN sanitizeVirtualPath(Tail(s))
              ELSE <<SL>> \o sanitizeVirtualPath(Tail(s))
         ELSE <<Head(s)>> \o sanitizeVirtualPath(Tail(s))

\* displayName.match(/\(([A-Z]):\)/i): the positions where "(X:)" starts
DriveLetterMatches(displayName) ==
    { i \in 1..Len(displayName) :
        /\ i + 3 <= Len(displayName)
        /\ displayName[i] = "("
        /\ IsLetter(displayName[i + 1])
        /\ displayName[i + 2] = ":"
        /\ displayName[i + 3] = ")" }
FirstMatch(S) == CHOOSE i \in S : \A j \in S : i <= j

\* ensureDriveLetter: the letter (or NoLetter) and the alias map afterwards
NoLetter == <<>>
\* mutant: a new label replaces the labels entered before
ensureDriveLetterEvicting(aliasMap, displayName) ==
    IF displayName \in DOMAIN aliasMap
    THEN [letter |-> aliasMap[displayName], aliasMap |-> aliasMap]
    ELSE IF DriveLetterMatches(displayName) # {}
    THEN [letter |-> <<ToUpperCase(displayName[FirstMatch(DriveLetterMatches(displayName)) + 1]),
                       ":">>,
          aliasMap |-> (displayName :>
                           <<ToUpperCase(displayName[FirstMatch(DriveLetterMatches(displayName)) + 1]),
                             ":">>)]
    ELSE [letter |-> NoLetter, aliasMap |-> aliasMap]
\* mutant: the letter is taken as it is written in the label
ensureDriveLetterAsWritten(aliasMap, displayName) ==
    IF displayName \in DOMAIN aliasMap
    THEN [letter |-> aliasMap[displayName], aliasMap |-> aliasMap]
    ELSE IF DriveLetterMatches(displayName) # {}
    THEN [letter |-> <<displayName[FirstMatch(DriveLetterMatches(displayName)) + 1], ":">>,
          aliasMap |-> (displayName :>
                           <<displayName[FirstMatch(DriveLetterMatches(displayName)) + 1], ":">>)
                       @@ aliasMap]
    ELSE [letter |-> NoLetter, aliasMap |-> aliasMap]
ensureDriveLetter(aliasMap, displayName) ==
    IF displayName \in DOMAIN aliasMap
    THEN [letter |-> aliasMap[displayName], aliasMap |-> aliasMap]
    ELSE IF DriveLetterMatches(displayName) # {}
    THEN LET i == FirstMatch(DriveLetterMatches(displayName))
             letter == <<ToUpperCase(displayName[i + 1]), ":">>
         IN [letter |-> letter,
             aliasMap |-> (displayName :> letter) @@ aliasMap]
    ELSE [letter |-> NoLetter, aliasMap |-> aliasMap]

(***************************************************************************)
(* resolveLocalVirtualPath.  The result carries the alias map as the call  *)
(* leaves it; type "error" stands for a thrown Error of the given kind.    *)
(***************************************************************************)
NoPath == RealPath(<<>>, <<>>)
Resolved(type, fsPath, isDirectory, baseVirtual, aliasMap, error) ==
    [type |-> type, fsPath |-> fsPath, isDirectory |-> isDirectory,
     baseVirtual |-> baseVirtual, aliasMap |-> aliasMap, error |-> error]
ResolveError(kind, aliasMap) == Resolved("error", NoPath, FALSE, <<>>, aliasMap, kind)

\* mutant: a special folder is matched by its prefix with the '/' only
MatchingFoldersByPrefix(sanitized) ==
    { i \in 1..Len(specialFolders) :
        StartsWith(sanitized, normalizeVirtualFolder(specialFolders[i].virtual)) }
\* the first special folder whose prefix (or prefix without '/') the path matches
MatchingFolders(sanitized) ==
    { i \in 1..Len(specialFolders) :
        LET base == normalizeVirtualFolder(specialFolders[i].virtual)
        IN \/ sanitized = base
           \/ sanitized = DropLast(base)
           \/ StartsWith(sanitized, base) }

ThisPCPrefix == LocalScheme \o ThisPC \o <<SL>>

\* /^local:\/\/This PC\/([^/]+)\/?(.*)$/ : group 1 is the longest run of
\* characters other than '/', group 2 what follows the optional '/'
RECURSIVE TakeNonSlash(_)
TakeNonSlash(s) ==
    IF s = <<>> \/ Head(s) = SL THEN <<>> ELSE <<Head(s)>> \o TakeNonSlash(Tail(s))
DriveMatch(sanitized) ==
    IF ~StartsWith(sanitized, ThisPCPrefix)
    THEN [matched |-> FALSE, displayName |-> <<>>, remainder |-> <<>>]
    ELSE LET rest == Slice(sanitized, Len(ThisPCPrefix))
             name == TakeNonSlash(rest)
             after == Slice(rest, Len(name))
         IN [matched |-> name # <<>>,
             displayName |-> name,
             remainder |-> IF after # <<>> /\ Head(after) = SL THEN Tail(after) ELSE after]

\* mutant: every scheme the renderer knows passes the scheme check
HasKnownScheme(sanitized) == \E scheme \in KnownSchemes : StartsWith(sanitized, scheme)
\* line 112: sanitized.startsWith('local://')
HasLocalScheme(sanitized) == StartsWith(sanitized, LocalScheme)
\* line 115
IsRootPath(sanitized) == sanitized = LocalScheme
\* mutant: only the form with the trailing '/' is the drive listing
IsDrivesPathWithSlash(sanitized) == sanitized = ThisPCPrefix
\* line 118
IsDrivesPath(sanitized) == sanitized = ThisPCPrefix \/ sanitized = DropLast(ThisPCPrefix)

resolveLocalVirtualPath(aliasMap, virtualPath) ==
    LET sanitized == sanitizeVirtualPath(virtualPath)
        asDirectory == EndsWith(sanitized, <<SL>>)
    IN
    IF ~HasLocalScheme(sanitized) THEN ResolveError("UnsupportedScheme", aliasMap)
    ELSE IF IsRootPath(sanitized)
    THEN Resolved("root", NoPath, FALSE, <<>>, aliasMap, "none")
    ELSE IF IsDrivesPath(sanitized)
    THEN Resolved("drives", NoPath, FALSE, <<>>, aliasMap, "none")
    ELSE IF MatchingFolders(sanitized) # {}
    THEN LET folder == specialFolders[FirstMatch(MatchingFolders(sanitized))]
             base == normalizeVirtualFolder(folder.virtual)
         IN IF sanitized = base \/ sanitized = DropLast(base)
            THEN Resolved("entry", folder.fsPath, TRUE, base, aliasMap, "none")
            ELSE LET relative == Slice(sanitized, Len(base))
                     segments == SplitSegments(relative, SL)
                 IN Resolved("entry", PathJoin(folder.fsPath, segments),
                             asDirectory \/ Len(segments) = 0, base, aliasMap, "none")
    ELSE LET driveMatch == DriveMatch(sanitized)
         IN IF driveMatch.matched
            THEN LET ensured == ensureDriveLetter(aliasMap, driveMatch.displayName)
                     segments == SplitSegments(driveMatch.remainder, SL)
                 IN IF ensured.letter = NoLetter
                    THEN ResolveError("UnknownDrive", ensured.aliasMap)
                    ELSE Resolved("entry",
                                  PathJoin(RealPath(ensured.letter, <<>>), segments),
                                  asDirectory \/ Len(segments) = 0,
                                  ThisPCPrefix \o driveMatch.displayName \o <<SL>>,
                                  ensured.aliasMap, "none")
            ELSE ResolveError("UnsupportedPath", aliasMap)

normalizeDestinationVirtual(destination) ==
    IF EndsWith(destination, <<SL>>) THEN destination ELSE destination \o <<SL>>

(***************************************************************************)
(* The filesystem: a function from the real paths that exist to their      *)
(* nodes.  Every operation returns the filesystem it leaves and the error  *)
(* code it throws ("none" when it succeeds).                               *)
(***************************************************************************)
DirNode == [kind |-> "dir", data |-> 0]
FileNode(data) == [kind |-> "file", data |-> data]

Exists(f, p) == p \in DOMAIN f
IsDir(f, p) == Exists(f, p) /\ f[p].kind = "dir"
IsFile(f, p) == Exists(f, p) /\ f[p].kind = "file"

\* q is p or lies below p
IsUnder(p, q) ==
    /\ q.drive = p.drive
    /\ Len(q.segs) >= Len(p.segs)
    /\ SubSeq(q.segs, 1, Len(p.segs)) = p.segs
Rebase(q, from, to) ==
    RealPath(to.drive, to.segs \o SubSeq(q.segs, Len(from.segs) + 1, Len(q.segs)))
Ancestors(p) == { RealPath(p.drive, SubSeq(p.segs, 1, n)) : n \in 0..Len(p.segs) }
Subtree(f, p) == { q \in DOMAIN f : IsUnder(p, q) }
Without(f, S) == [q \in DOMAIN f \ S |-> f[q]]

IoResult(f, error) == [fs |-> f, error |-> error]

\* mutant: the probe always succeeds
pathExistsAlways(f, p) == TRUE
\* fs.access(p, R_OK) wrapped by pathExists
pathExists(f, p) == Exists(f, p)

\* fs.mkdir(p, {recursive: true})
ensureDirectory(f, p) ==
    IF ~Exists(f, RealPath(p.drive, <<>>)) THEN IoResult(f, "ENOENT")
    ELSE IF \E a \in Ancestors(p) : IsFile(f, a) THEN IoResult(f, "EEXIST")
    ELSE IoResult([a \in Ancestors(p) \ DOMAIN f |-> DirNode] @@ f, "none")

\* fs.cp(src, dst, {recursive: true, force: true}) of a directory: refuses a
\* destination that is the source or lies inside it, and a destination that
\* is a file; otherwise merges the tree into the destination, overwriting
CopyConflicts(f, src, dst) ==
    { q \in Subtree(f, src) :
        Exists(f, Rebase(q, src, dst)) /\ f[Rebase(q, src, dst)].kind # f[q].kind }
fsCp(f, src, dst) ==
    IF IsUnder(src, dst) THEN IoResult(f, "ERR_FS_CP_EINVAL")
    ELSE IF IsFile(f, dst) THEN IoResult(f, "ERR_FS_CP_DIR_TO_NON_DIR")
    ELSE LET parent == ensureDirectory(f, PathDirname(dst))
             copied == { q \in Subtree(f, src) :
                           \A c \in CopyConflicts(f, src, dst) : ~IsUnder(c, q) }
             image == { Rebase(q, src, dst) : q \in copied }
         IN IF parent.error # "none" THEN parent
            ELSE IoResult([t \in image |-> f[Rebase(t, dst, src)]] @@ parent.fs,
                          IF CopyConflicts(f, src, dst) = {} THEN "none" ELSE "EISDIR")

\* fs.copyFile(src, dst): overwrites a file, fails on a directory
fsCopyFile(f, src, dst) ==
    IF ~Exists(f, src) THEN IoResult(f, "ENOENT")
    ELSE IF IsDir(f, dst) THEN IoResult(f, "EISDIR")
    ELSE IF ~IsDir(f, PathDirname(dst)) THEN IoResult(f, "ENOENT")
    ELSE IoResult((dst :> f[src]) @@ f, "none")

\* the rename within one device: replaces a file by a file, fails when a
\* directory is in the way and when the destination lies inside the source
RenameOnDevice(f, src, dst) ==
    IF ~Exists(f, src) \/ ~IsDir(f, PathDirname(dst)) THEN IoResult(f, "ENOENT")
    ELSE IF src.segs = <<>> THEN IoResult(f, "EPERM")
    ELSE IF src = dst THEN IoResult(f, "none")
    ELSE IF IsUnder(src, dst) THEN IoResult(f, "EINVAL")
    ELSE IF Exists(f, dst) /\ (IsDir(f, dst) \/ IsDir(f, src)) THEN IoResult(f, "EPERM")
    ELSE LET moved == Subtree(f, src)
         IN IoResult([t \in { Rebase(q, src, dst) : q \in moved } |->
                          f[Rebase(t, dst, src)]] @@ Without(f, moved), "none")

\* fs.rename(src, dst): a rename across drives fails with EXDEV
fsRename(f, src, dst) ==
    IF Exists(f, src) /\ IsDir(f, PathDirname(dst)) /\ src.segs # <<>>
       /\ src.drive # dst.drive
    THEN IoResult(f, "EXDEV")
    ELSE RenameOnDevice(f, src, dst)

\* mutant: rm without force, an absent target is an error
fsRmWithoutForce(f, p) ==
    IoResult(Without(f, Subtree(f, p)), IF Exists(f, p) THEN "none" ELSE "ENOENT")
\* fs.rm(p, {recursive: true, force: true}): an absent target is no error
fsRm(f, p) == IoResult(Without(f, Subtree(f, p)), "none")

(***************************************************************************)
(* copyEntry, moveEntry, deleteEntry.  Besides the filesystem and the      *)
(* error, each returns the log of the fs calls it made, in order.          *)
(***************************************************************************)
IoCall(op, path, to) == [op |-> op, path |-> path, to |-> to]
Step(f, error, log) == [fs |-> f, error |-> error, log |-> log]

\* each operator below takes the results of the awaited calls before it as
\* arguments, in the order in which the function makes them
CopiedDirectory(sourceFs, destinationFs, cp) ==
    Step(cp.fs, cp.error,
         <<IoCall("stat", sourceFs, NoPath), IoCall("cp", sourceFs, destinationFs)>>)
CopiedFile(sourceFs, destinationFs, copied) ==
    Step(copied.fs, copied.error,
         <<IoCall("stat", sourceFs, NoPath),
           IoCall("mkdir", PathDirname(destinationFs), NoPath),
           IoCall("copyFile", sourceFs, destinationFs)>>)
CopyFileInto(sourceFs, destinationFs, made) ==
    IF made.error # "none"
    THEN Step(made.fs, made.error,
              <<IoCall("stat", sourceFs, NoPath),
                IoCall("mkdir", PathDirname(destinationFs), NoPath)>>)
    ELSE CopiedFile(sourceFs, destinationFs, fsCopyFile(made.fs, sourceFs, destinationFs))

copyEntry(f, sourceFs, destinationFs) ==
    IF ~Exists(f, sourceFs) THEN Step(f, "ENOENT", <<IoCall("stat", sourceFs, NoPath)>>)
    ELSE IF IsDir(f, sourceFs)
    THEN CopiedDirectory(sourceFs, destinationFs, fsCp(f, sourceFs, destinationFs))
    ELSE CopyFileInto(sourceFs, destinationFs, ensureDirectory(f, PathDirname(destinationFs)))

DeletedEntry(targetFs, removed) ==
    Step(removed.fs, removed.error, <<IoCall("rm", targetFs, NoPath)>>)
deleteEntry(f, targetFs) == DeletedEntry(targetFs, fsRm(f, targetFs))

MoveLog(sourceFs, destinationFs) ==
    <<IoCall("mkdir", PathDirname(destinationFs), NoPath),
      IoCall("rename", sourceFs, destinationFs)>>
FallbackDeleted(sourceFs, destinationFs, copied, deleted) ==
    Step(deleted.fs, deleted.error,
         MoveLog(sourceFs, destinationFs) \o copied.log \o deleted.log)
FallbackCopied(sourceFs, destinationFs, copied) ==
    IF copied.error # "none"
    THEN Step(copied.fs, copied.error, MoveLog(sourceFs, destinationFs) \o copied.log)
    ELSE FallbackDeleted(sourceFs, destinationFs, copied, deleteEntry(copied.fs, sourceFs))
Renamed(sourceFs, destinationFs, renamed) ==
    IF renamed.error = "EXDEV"
    THEN FallbackCopied(sourceFs, destinationFs,
                        copyEntry(renamed.fs, sourceFs, destinationFs))
    ELSE Step(renamed.fs, renamed.error, MoveLog(sourceFs, destinationFs))
RenameInto(sourceFs, destinationFs, made) ==
    IF made.error # "none"
    THEN Step(made.fs, made.error, <<IoCall("mkdir", PathDirname(destinationFs), NoPath)>>)
    ELSE Renamed(sourceFs, destinationFs, fsRename(made.fs, sourceFs, destinationFs))

moveEntry(f, sourceFs, destinationFs) ==
    RenameInto(sourceFs, destinationFs, ensureDirectory(f, PathDirname(destinationFs)))

(***************************************************************************)
(* performCopyOrMove and handleDeleteItems.  An outcome is what the call   *)
(* leaves behind: the filesystem, the alias map, the thrown error ("none"  *)
(* for a returned {success: true}), the result items, the log of fs calls, *)
(* and for every source the loop reached what was decided for it.          *)
(***************************************************************************)
Outcome(f, aliasMap, error, items, log, trail) ==
    [fs |-> f, aliasMap |-> aliasMap, error |-> error, items |-> items,
     log |-> log, trail |-> trail]
Visit(source, sourceFs, targetFs, isDirectory, verdict) ==
    [source |-> source, sourceFs |-> sourceFs, targetFs |-> targetFs,
     isDirectory |-> isDirectory, verdict |-> verdict]
ResultItem(source, destination) == [source |-> source, destination |-> destination]

\* lines 344 and 347: the two string tests on the resolved paths
\* mutant: the identity test never succeeds
IsSamePathNever(resolvedSource, resolvedDestination) == FALSE
IsSamePath(resolvedSource, resolvedDestination) == resolvedSource = resolvedDestination
\* mutant: the test without the path separator appended to the source
IsInsideSourceNoSeparator(resolvedSource, resolvedDestination) ==
    StartsWith(resolvedDestination, resolvedSource)
IsInsideSource(resolvedSource, resolvedDestination) ==
    StartsWith(resolvedDestination, resolvedSource \o <<Sep>>)

\* mutant: no trailing '/' for a directory source
DestinationVirtualNoSlash(destVirtual, basename, isDirectory) == destVirtual \o basename
\* line 359: the destination virtual path of a processed source
DestinationVirtual(destVirtual, basename, isDirectory) ==
    destVirtual \o basename \o (IF isDirectory THEN <<SL>> ELSE <<>>)

\* the loop over sources, lines 332-361, from source number i on; st is the
\* loop state [fs, results, log, trail], ctx the call's sources, destination
\* and move flag
LoopState(f, results, log, trail) ==
    [fs |-> f, results |-> results, log |-> log, trail |-> trail]
Thrown(f, aliasMap, error, log, trail) == Outcome(f, aliasMap, error, <<>>, log, trail)

RECURSIVE CopyMoveLoop(_, _, _, _)

\* lines 351-360: the source has been copied or moved (done), or that failed
\* mutant: a source that failed is left out and the loop goes on
TransferredKeepGoing(st, ctx, i, sourceInfo, visited, done) ==
    CopyMoveLoop(
        LoopState(done.fs,
                  IF done.error # "none" THEN st.results
                  ELSE Append(st.results,
                              ResultItem(ctx.sources[i],
                                         DestinationVirtual(ctx.destVirtual,
                                                            PathBasename(sourceInfo.fsPath),
                                                            IsDir(st.fs, sourceInfo.fsPath)))),
                  st.log \o done.log,
                  Append(st.trail, visited[IF done.error # "none" THEN "failed" ELSE "done"])),
        sourceInfo.aliasMap, ctx, i + 1)
Transferred(st, ctx, i, sourceInfo, visited, done) ==
    IF done.error # "none"
    THEN Thrown(done.fs, sourceInfo.aliasMap, done.error,
                st.log \o done.log, Append(st.trail, visited["failed"]))
    ELSE CopyMoveLoop(
             LoopState(done.fs,
                       Append(st.results,
                              ResultItem(ctx.sources[i],
                                         DestinationVirtual(ctx.destVirtual,
                                                            PathBasename(sourceInfo.fsPath),
                                                            IsDir(st.fs, sourceInfo.fsPath)))),
                       st.log \o done.log,
                       Append(st.trail, visited["done"])),
             sourceInfo.aliasMap, ctx, i + 1)

\* lines 337-355: the source is a concrete entry
ProcessEntry(st, ctx, i, sourceInfo, targetFsPath, visited) ==
    IF ~Exists(st.fs, sourceInfo.fsPath)
    THEN Thrown(st.fs, sourceInfo.aliasMap, "ENOENT", st.log, Append(st.trail, visited["missing"]))
    ELSE IF IsSamePath(PathResolve(sourceInfo.fsPath), PathResolve(targetFsPath))
    THEN CopyMoveLoop(LoopState(st.fs, st.results, st.log, Append(st.trail, visited["skipped"])),
                      sourceInfo.aliasMap, ctx, i + 1)
    ELSE IF IsInsideSource(PathResolve(sourceInfo.fsPath), PathResolve(targetFsPath))
    THEN Thrown(st.fs, sourceInfo.aliasMap, "SelfContainment", st.log,
                Append(st.trail, visited["selfContained"]))
    ELSE Transferred(st, ctx, i, sourceInfo, visited,
                     IF ctx.move THEN moveEntry(st.fs, sourceInfo.fsPath, targetFsPath)
                     ELSE copyEntry(st.fs, sourceInfo.fsPath, targetFsPath))

\* lines 333-339: the source has been resolved
ProcessSource(st, ctx, i, sourceInfo) ==
    IF sourceInfo.type = "error"
    THEN Thrown(st.fs, sourceInfo.aliasMap, sourceInfo.error, st.log,
                Append(st.trail, Visit(ctx.sources[i], NoPath, NoPath, FALSE, "unresolved")))
    ELSE IF sourceInfo.type # "entry"
    THEN Thrown(st.fs, sourceInfo.aliasMap, "UnsupportedSource", st.log,
                Append(st.trail, Visit(ctx.sources[i], NoPath, NoPath, FALSE, "unsupported")))
    ELSE ProcessEntry(
             LoopState(st.fs, st.results,
                       Append(st.log, IoCall("stat", sourceInfo.fsPath, NoPath)), st.trail),
             ctx, i, sourceInfo,
             PathJoin(ctx.destFs, <<PathBasename(sourceInfo.fsPath)>>),
             [verdict \in {"missing", "skipped", "selfContained", "failed", "done"} |->
                 Visit(ctx.sources[i], sourceInfo.fsPath,
                       PathJoin(ctx.destFs, <<PathBasename(sourceInfo.fsPath)>>),
                       IsDir(st.fs, sourceInfo.fsPath), verdict)])

CopyMoveLoop(st, aliasMap, ctx, i) ==
    IF i > Len(ctx.sources)
    THEN Outcome(st.fs, aliasMap, "none", st.results, st.log, st.trail)
    ELSE ProcessSource(st, ctx, i, resolveLocalVirtualPath(aliasMap, ctx.sources[i]))

\* mutant: the length test is missing
IsNoInputArrayOnly(payload) == ~payload.isArray
\* lines 318 and 368: !Array.isArray(list) || list.length === 0
IsNoInput(payload) == ~payload.isArray \/ Len(payload.sources) = 0

CallContext(payload, destVirtual, destInfo, move) ==
    [sources |-> payload.sources, destVirtual |-> destVirtual,
     destFs |-> destInfo.fsPath, move |-> move]

\* lines 327-331: the destination was missing and has been created (made)
DestinationMade(ctx, destInfo, made) ==
    IF made.error # "none"
    THEN Thrown(made.fs, destInfo.aliasMap, made.error,
                <<IoCall("access", destInfo.fsPath, NoPath),
                  IoCall("mkdir", destInfo.fsPath, NoPath)>>, <<>>)
    ELSE CopyMoveLoop(LoopState(made.fs, <<>>,
                                <<IoCall("access", destInfo.fsPath, NoPath),
                                  IoCall("mkdir", destInfo.fsPath, NoPath)>>, <<>>),
                      destInfo.aliasMap, ctx, 1)

\* lines 323-331: the destination has been resolved
IntoDestination(f, ctx, destInfo) ==
    IF destInfo.type = "error"
    THEN Thrown(f, destInfo.aliasMap, destInfo.error, <<>>, <<>>)
    ELSE IF destInfo.type # "entry" \/ ~destInfo.isDirectory
    THEN Thrown(f, destInfo.aliasMap, "DestinationNotDirectory", <<>>, <<>>)
    ELSE IF pathExists(f, destInfo.fsPath)
    THEN CopyMoveLoop(LoopState(f, <<>>, <<IoCall("access", destInfo.fsPath, NoPath)>>, <<>>),
                      destInfo.aliasMap, ctx, 1)
    ELSE DestinationMade(ctx, destInfo, ensureDirectory(f, destInfo.fsPath))

\* a payload is [isArray, sources, destination]; isArray = FALSE stands for a
\* sources / targets value that is not an array
DestinationResolved(f, payload, move, destVirtual, destInfo) ==
    IntoDestination(f, CallContext(payload, destVirtual, destInfo, move), destInfo)
performCopyOrMove(f, aliasMap, payload, move) ==
    IF IsNoInput(payload)
    THEN Thrown(f, aliasMap, "NoInput", <<>>, <<>>)
    ELSE DestinationResolved(
             f, payload, move, normalizeDestinationVirtual(payload.destination),
             resolveLocalVirtualPath(aliasMap, normalizeDestinationVirtual(payload.destination)))

\* the loop over targets, lines 371-377, from target number i on
RECURSIVE DeleteLoop(_, _, _, _, _, _)
TargetDeleted(f, targets, i, log, trail, info, removed) ==
    IF removed.error # "none"
    THEN Thrown(removed.fs, info.aliasMap, removed.error, log \o removed.log,
                Append(trail, Visit(targets[i], info.fsPath, NoPath,
                                    IsDir(f, info.fsPath), "failed")))
    ELSE DeleteLoop(removed.fs, info.aliasMap, targets, i + 1, log \o removed.log,
                    Append(trail, Visit(targets[i], info.fsPath, NoPath,
                                        IsDir(f, info.fsPath), "done")))
ProcessTarget(f, targets, i, log, trail, info) ==
    IF info.type = "error"
    THEN Thrown(f, info.aliasMap, info.error, log,
                Append(trail, Visit(targets[i], NoPath, NoPath, FALSE, "unresolved")))
    ELSE IF info.type # "entry"
    THEN Thrown(f, info.aliasMap, "UnsupportedTarget", log,
                Append(trail, Visit(targets[i], NoPath, NoPath, FALSE, "unsupported")))
    ELSE TargetDeleted(f, targets, i, log, trail, info, deleteEntry(f, info.fsPath))
DeleteLoop(f, aliasMap, targets, i, log, trail) ==
    IF i > Len(targets) THEN Outcome(f, aliasMap, "none", <<>>, log, trail)
    ELSE ProcessTarget(f, targets, i, log, trail,
                       resolveLocalVirtualPath(aliasMap, targets[i]))

handleDeleteItems(f, aliasMap, payload) ==
    IF IsNoInput(payload)
    THEN Thrown(f, aliasMap, "NoInput", <<>>, <<>>)
    ELSE DeleteLoop(f, aliasMap, payload.sources, 1, <<>>, <<>>)

(***************************************************************************)
(* Listings: createIdForPath, inferFileType, readDirectory,                *)
(* listSpecialDirectories, listDriveRoots and handleListDirectory.  A      *)
(* listing entry is the record the handler returns without its "modified"  *)
(* field: timestamps are not part of the model.                            *)
(***************************************************************************)
\* crypto.createHash('sha1').update(virtualPath).digest('hex'): the digest
\* is kept symbolic, the message it was computed from under the name of the
\* hash function, so that digests are equal exactly when the messages are
createIdForPath(virtualPath) == [sha1 |-> virtualPath]

ToLowerCase(c) ==
    IF \E i \in 1..26 : UpperLetters[i] = c
    THEN LowerLetters[CHOOSE i \in 1..26 : UpperLetters[i] = c]
    ELSE c
LowerCased(s) == [i \in 1..Len(s) |-> ToLowerCase(s[i])]

\* path.extname: from the last '.' on, empty when there is none or when the
\* only one is the first character
DotPositions(name) == { i \in 1..Len(name) : name[i] = "." }
LastDot(name) == CHOOSE i \in DotPositions(name) : \A j \in DotPositions(name) : j <= i
PathExtname(name) ==
    IF DotPositions(name) = {} \/ LastDot(name) = 1 THEN <<>>
    ELSE SubSeq(name, LastDot(name), Len(name))

ExtensionTypes ==
    << [type |-> "document",
        exts |-> { <<".","d","o","c">>, <<".","d","o","c","x">>, <<".","m","d">>,
                   <<".","t","x","t">> }],
       [type |-> "spreadsheet",
        exts |-> { <<".","x","l","s","x">>, <<".","c","s","v">>, <<".","t","s","v">> }],
       [type |-> "presentation",
        exts |-> { <<".","p","p","t">>, <<".","p","p","t","x">> }],
       [type |-> "image",
        exts |-> { <<".","j","p","g">>, <<".","j","p","e","g">>, <<".","p","n","g">>,
                   <<".","g","i","f">>, <<".","w","e","b","p">>, <<".","s","v","g">> }],
       [type |-> "video",
        exts |-> { <<".","m","p","4">>, <<".","m","k","v">>, <<".","m","o","v">>,
                   <<".","a","v","i">> }],
       [type |-> "archive",
        exts |-> { <<".","z","i","p">>, <<".","r","a","r">>, <<".","7","z">> }],
       [type |-> "audio",
        exts |-> { <<".","m","p","3">>, <<".","w","a","v">>, <<".","f","l","a","c">> }],
       [type |-> "pdf", exts |-> { <<".","p","d","f">> }] >>
TypesOfExtension(ext) ==
    { i \in 1..Len(ExtensionTypes) : ext \in ExtensionTypes[i].exts }
inferFileType(name, isDirectory) ==
    IF isDirectory THEN "folder"
    ELSE IF TypesOfExtension(LowerCased(PathExtname(name))) = {} THEN "file"
    ELSE ExtensionTypes[FirstMatch(TypesOfExtension(LowerCased(PathExtname(name))))].type

\* String.prototype.localeCompare with the default collation: blanks and
\* punctuation before digits before letters, letters compared without case
\* first, and a lower-case letter before the same letter in upper case
CollationOrder ==
    <<" ", "_", "-", ":", ".", "(", ")",
      "0", "1", "2", "3", "4", "5", "6", "7", "8", "9">> \o LowerLetters
PrimaryRank(c) ==
    CHOOSE i \in 1..Len(CollationOrder) : CollationOrder[i] = ToLowerCase(c)
RECURSIVE ComparePrimary(_, _)
ComparePrimary(a, b) ==
    IF a = <<>> THEN (IF b = <<>> THEN 0 ELSE -1)
    ELSE IF b = <<>> THEN 1
    ELSE IF PrimaryRank(Head(a)) < PrimaryRank(Head(b)) THEN -1
    ELSE IF PrimaryRank(Head(a)) > PrimaryRank(Head(b)) THEN 1
    ELSE ComparePrimary(Tail(a), Tail(b))
RECURSIVE CompareCase(_, _)
CompareCase(a, b) ==
    IF a = <<>> \/ b = <<>> THEN 0
    ELSE IF Head(a) = Head(b) THEN CompareCase(Tail(a), Tail(b))
    ELSE IF Head(a) = ToLowerCase(Head(a)) THEN -1 ELSE 1
localeCompare(a, b) ==
    IF ComparePrimary(a, b) # 0 THEN ComparePrimary(a, b) ELSE CompareCase(a, b)

FileEntry(id, name, type, size, virtualPath) ==
    [id |-> id, name |-> name, type |-> type, size |-> size, path |-> virtualPath,
     service |-> "local"]
NullSize == "null"

\* the comparator of readDirectory, lines 215-219
\* mutant: the comparator without the two folder tests
CompareEntriesByNameOnly(a, b) == localeCompare(a.name, b.name)
CompareEntries(a, b) ==
    IF a.type = "folder" /\ b.type # "folder" THEN -1
    ELSE IF a.type # "folder" /\ b.type = "folder" THEN 1
    ELSE localeCompare(a.name, b.name)
\* the comparator of listDriveRoots, line 284
CompareNames(a, b) == localeCompare(a.name, b.name)

\* Array.prototype.sort(compare): a stable sort, here by insertion of each
\* element behind the elements that do not compare greater than it; compare
\* is the table of the comparator's results on the elements
RECURSIVE InsertSorted(_, _, _)
InsertSorted(sorted, x, compare) ==
    IF sorted = <<>> THEN <<x>>
    ELSE IF compare[Head(sorted), x] <= 0
    THEN <<Head(sorted)>> \o InsertSorted(Tail(sorted), x, compare)
    ELSE <<x>> \o sorted
RECURSIVE SortFrom(_, _, _, _)
SortFrom(items, i, sorted, compare) ==
    IF i > Len(items) THEN sorted
    ELSE SortFrom(items, i + 1, InsertSorted(sorted, items[i], compare), compare)
ArraySort(items, compare) == SortFrom(items, 1, <<>>, compare)
Elements(items) == { items[i] : i \in 1..Len(items) }
\* lines 213-219
SortedEntries(items) ==
    ArraySort(items, [a \in Elements(items), b \in Elements(items) |-> CompareEntries(a, b)])
\* line 284
SortedByName(items) ==
    ArraySort(items, [a \in Elements(items), b \in Elements(items) |-> CompareNames(a, b)])

\* the entries of a directory as fs.readdir returns them; the order is the
\* operating system's, here an arbitrary fixed one
Children(f, p) ==
    { q \in DOMAIN f : IsUnder(p, q) /\ Len(q.segs) = Len(p.segs) + 1 }
RECURSIVE Enumerate(_)
Enumerate(S) ==
    IF S = {} THEN <<>>
    ELSE <<CHOOSE x \in S : TRUE>> \o Enumerate(S \ {CHOOSE x \in S : TRUE})

\* lines 199-209: the record made for a child whose stat succeeded
\* mutant: the id is taken from the name instead of the virtual path
ChildEntryIdOfName(f, child, baseWithSlash) ==
    FileEntry(createIdForPath(PathBasename(child)),
              PathBasename(child),
              inferFileType(PathBasename(child), IsDir(f, child)),
              IF IsDir(f, child) THEN NullSize ELSE f[child].data,
              baseWithSlash \o PathBasename(child)
                  \o (IF IsDir(f, child) THEN <<SL>> ELSE <<>>))
\* mutant: no trailing '/' for a directory child
ChildEntryNoSlash(f, child, baseWithSlash) ==
    FileEntry(createIdForPath(baseWithSlash \o PathBasename(child)),
              PathBasename(child),
              inferFileType(PathBasename(child), IsDir(f, child)),
              IF IsDir(f, child) THEN NullSize ELSE f[child].data,
              baseWithSlash \o PathBasename(child))
ChildEntry(f, child, baseWithSlash) ==
    FileEntry(createIdForPath(baseWithSlash \o PathBasename(child)
                                  \o (IF IsDir(f, child) THEN <<SL>> ELSE <<>>)),
              PathBasename(child),
              inferFileType(PathBasename(child), IsDir(f, child)),
              IF IsDir(f, child) THEN NullSize ELSE f[child].data,
              baseWithSlash \o PathBasename(child)
                  \o (IF IsDir(f, child) THEN <<SL>> ELSE <<>>))

\* what a listing leaves behind: the entries returned, the fs calls made and,
\* for readDirectory, one Visit per child read with the verdict of its stat
Listed(items, log, trail) == [items |-> items, log |-> log, trail |-> trail]

\* lines 190-219: dirEntries have been read; lost are the children that
\* another process deletes before their stat, whose stat therefore fails
\* mutant: a failed stat fails the whole listing
DirectoryReadFailFast(f, fsPath, baseWithSlash, dirEntries, lost) ==
    IF \E i \in 1..Len(dirEntries) : dirEntries[i] \in lost
    THEN Listed(<<>>, <<IoCall("readdir", fsPath, NoPath)>>, <<>>)
    ELSE Listed(SortedEntries([i \in 1..Len(dirEntries) |->
                                  ChildEntry(f, dirEntries[i], baseWithSlash)]),
                <<IoCall("readdir", fsPath, NoPath)>>
                    \o [i \in 1..Len(dirEntries) |-> IoCall("stat", dirEntries[i], NoPath)],
                [i \in 1..Len(dirEntries) |->
                    Visit(PathBasename(dirEntries[i]), dirEntries[i], NoPath,
                          IsDir(f, dirEntries[i]), "listed")])
\* the null returned for a child whose stat failed, line 197
NullEntry == [null |-> TRUE]
MappedEntries(f, baseWithSlash, dirEntries, lost) ==
    [i \in 1..Len(dirEntries) |->
        IF dirEntries[i] \in lost THEN NullEntry
        ELSE ChildEntry(f, dirEntries[i], baseWithSlash)]
\* items.filter(Boolean), line 214
FilterBoolean(items) == SelectSeq(items, LAMBDA item : item # NullEntry)
DirectoryRead(f, fsPath, baseWithSlash, dirEntries, lost) ==
    Listed(SortedEntries(FilterBoolean(MappedEntries(f, baseWithSlash, dirEntries, lost))),
           <<IoCall("readdir", fsPath, NoPath)>>
               \o [i \in 1..Len(dirEntries) |-> IoCall("stat", dirEntries[i], NoPath)],
           [i \in 1..Len(dirEntries) |->
               Visit(PathBasename(dirEntries[i]), dirEntries[i], NoPath,
                     IsDir(f, dirEntries[i]),
                     IF dirEntries[i] \in lost THEN "statFailed" ELSE "listed")])

\* readDirectory: a failing fs.readdir (the path is missing or no directory)
\* is caught and gives the empty list
readDirectory(f, fsPath, virtualBase, lost) ==
    IF ~IsDir(f, fsPath)
    THEN Listed(<<>>, <<IoCall("readdir", fsPath, NoPath)>>, <<>>)
    ELSE DirectoryRead(f, fsPath, normalizeVirtualFolder(virtualBase),
                       Enumerate(Children(f, fsPath)), lost)

\* listSpecialDirectories: the special folders that exist, in the order of
\* the table, and "This PC" behind them
SpecialEntry(folder) ==
    FileEntry(createIdForPath(folder.virtual), folder.label, "folder", NullSize,
              normalizeVirtualFolder(folder.virtual))
ThisPCEntry == FileEntry(createIdForPath(ThisPCPrefix), ThisPC, "folder", NullSize, ThisPCPrefix)
ExistingSpecialFolders(f) == SelectSeq(specialFolders, LAMBDA folder : pathExists(f, folder.fsPath))
listSpecialDirectories(f) ==
    Listed([i \in 1..Len(ExistingSpecialFolders(f)) |->
               SpecialEntry(ExistingSpecialFolders(f)[i])] \o <<ThisPCEntry>>,
           [i \in 1..Len(specialFolders) |-> IoCall("access", specialFolders[i].fsPath, NoPath)],
           <<>>)

\* listDriveRoots: the system drive first, then the letters A to Z whose root
\* can be read and that are not in the set yet
DriveOf(letter) == <<letter, ":">>
DriveRoot(drive) == RealPath(drive, <<>>)
ProbedDrives(f) ==
    SelectSeq([i \in 1..26 |-> DriveOf(UpperLetters[i])],
              LAMBDA candidate : candidate # systemDrive /\ Exists(f, DriveRoot(candidate)))
\* mutant: the system drive is probed like every other letter
DrivesFoundByProbeOnly(f) ==
    SelectSeq([i \in 1..26 |-> DriveOf(UpperLetters[i])],
              LAMBDA candidate : Exists(f, DriveRoot(candidate)))
DrivesFound(f) == <<systemDrive>> \o ProbedDrives(f)
DisplayNameOf(drive) ==
    IF drive = systemDrive THEN systemDriveDisplayName ELSE DriveLabel(sDrive, drive)
DriveEntry(drive) ==
    FileEntry(createIdForPath(ThisPCPrefix \o DisplayNameOf(drive) \o <<SL>>),
              DisplayNameOf(drive), "folder", NullSize,
              ThisPCPrefix \o DisplayNameOf(drive) \o <<SL>>)
\* line 272: driveAliasMap.set(displayName, drive) for every drive found
AliasesWithDrives(aliasMap, drives) ==
    [name \in { DisplayNameOf(drives[i]) : i \in 1..Len(drives) } |->
        drives[CHOOSE i \in 1..Len(drives) : DisplayNameOf(drives[i]) = name]] @@ aliasMap
listDriveRoots(f) ==
    Listed(SortedByName([i \in 1..Len(DrivesFound(f)) |-> DriveEntry(DrivesFound(f)[i])]),
           SelectSeq([i \in 1..26 |-> IoCall("access", DriveRoot(DriveOf(UpperLetters[i])), NoPath)],
                     LAMBDA call : call.path.drive # systemDrive),
           <<>>)

\* handleListDirectory; lost are the children of the listed directory that
\* another process deletes while the handler runs, between its readdir and
\* its stat calls
ListedDirectory(f, info, listed, lost) ==
    Outcome(Without(f, UNION { Subtree(f, child) : child \in lost }), info.aliasMap, "none",
            listed.items, listed.log, listed.trail)
ListedCatalog(f, aliasMap, listed) ==
    Outcome(f, aliasMap, "none", listed.items, listed.log, listed.trail)
ListResolved(f, virtualPath, info, lost) ==
    IF info.type = "error" THEN Thrown(f, info.aliasMap, info.error, <<>>, <<>>)
    ELSE IF info.type = "root" THEN ListedCatalog(f, info.aliasMap, listSpecialDirectories(f))
    ELSE IF info.type = "drives"
    THEN ListedCatalog(f, AliasesWithDrives(info.aliasMap, DrivesFound(f)), listDriveRoots(f))
    ELSE IF ~info.isDirectory THEN Thrown(f, info.aliasMap, "NotADirectory", <<>>, <<>>)
    ELSE ListedDirectory(f, info, readDirectory(f, info.fsPath, info.baseVirtual, lost), lost)
handleListDirectory(f, aliasMap, virtualPath, lost) ==
    ListResolved(f, virtualPath, resolveLocalVirtualPath(aliasMap, virtualPath), lost)

\* handleGetLocalShortcuts: the entries of listSpecialDirectories without
\* "This PC", as {name, path}, and "This PC" put behind them again
\* mutant: the "This PC" entry of the listing is kept as well
KeptShortcutsAll(entries) == entries
KeptShortcuts(entries) == SelectSeq(entries, LAMBDA entry : entry.path # ThisPCPrefix)
Shortcut(name, path) == [name |-> name, path |-> path]
ShortcutsOf(entries) ==
    [i \in 1..Len(KeptShortcuts(entries)) |->
        Shortcut(KeptShortcuts(entries)[i].name, KeptShortcuts(entries)[i].path)]
        \o <<Shortcut(ThisPC, ThisPCPrefix)>>
ShortcutsListed(f, aliasMap, listed) ==
    Outcome(f, aliasMap, "none", ShortcutsOf(listed.items), listed.log, listed.trail)
handleGetLocalShortcuts(f, aliasMap) ==
    ShortcutsListed(f, aliasMap, listSpecialDirectories(f))

(***************************************************************************)
(* SyncController (src/electron/syncController.mjs).  A Date is the record *)
(* of its time, its ISO string another record of it; null is a record of   *)
(* its own.  A web contents is alive or destroyed and holds the last        *)
(* 'sync:update' payload sent to it.                                       *)
(***************************************************************************)
NullDate == [null |-> TRUE]
DateAt(t) == [ms |-> t]
toISOString(date) == [iso |-> date.ms]

SyncState(st, lastSyncedAt, pendingOperations, conflicts, message) ==
    [state |-> st, lastSyncedAt |-> lastSyncedAt, pendingOperations |-> pendingOperations,
     conflicts |-> conflicts, message |-> message]
\* the constructor, lines 19-25
ConstructedState == SyncState("idle", NullDate, 0, <<>>, "Sync not yet run")

\* lines 3-14
toSerializableStatus(s) ==
    SyncState(s.state,
              IF s.lastSyncedAt = NullDate THEN NullDate ELSE toISOString(s.lastSyncedAt),
              s.pendingOperations,
              [i \in 1..Len(s.conflicts) |->
                  [s.conflicts[i] EXCEPT !.detectedAt = toISOString(@)]],
              s.message)

\* lines 54-57: {...this.state, ...patch}
Patched(s, patch) == [k \in DOMAIN s |-> IF k \in DOMAIN patch THEN patch[k] ELSE s[k]]
\* line 38
SyncingPatch == [state |-> "syncing", message |-> "Synchronising..."]
\* lines 42-48
\* mutant: the state field is left out of the patch
IdlePatchWithoutState(date) ==
    [lastSyncedAt |-> date, pendingOperations |-> 0, conflicts |-> <<>>,
     message |-> "Up to date"]
IdlePatch(date) ==
    [state |-> "idle", lastSyncedAt |-> date, pendingOperations |-> 0, conflicts |-> <<>>,
     message |-> "Up to date"]
\* line 34
\* mutant: the test is missing
IsSyncingNever(s) == FALSE
IsSyncing(s) == s.state = "syncing"

\* lines 59-67: the payload goes to every registered renderer; a renderer
\* whose send throws because it is destroyed is taken out of the set
WebContents(alive, last) == [alive |-> alive, last |-> last]
NoStatus == [none |-> TRUE]
Receivers(rs, wc) == { r \in rs : wc[r].alive }
SentTo(rs, wc, payload) ==
    [r \in DOMAIN wc |->
        IF r \in Receivers(rs, wc) THEN WebContents(TRUE, payload) ELSE wc[r]]

\* a call of sync:trigger or sync:getStatus: sleeping in its setTimeout until
\* due, or returned with its result
Call(kind, phase, due, result) ==
    [kind |-> kind, phase |-> phase, due |-> due, result |-> result]
\* line 39: the 750 ms of the setTimeout are one tick of the clock
Delay == 1

(***************************************************************************)
(* The environment: the files on disk at start-up and the requests the     *)
(* renderer sends.                                                         *)
(***************************************************************************)
MaxSources == 2
MaxDepth == 6
MaxCalls == 2
MaxLost == 1
MaxTriggers == 3
MaxClock == 3
MaxRenderers == 1

DesktopDir == PathJoin(HomeDir, <<sDesktop>>)
DocumentsDir == PathJoin(HomeDir, <<sDocuments>>)
VideosDir == PathJoin(HomeDir, <<sVideos>>)
InitialFs ==
    (RealPath(DriveC, <<>>) :> DirNode) @@
    (RealPath(DriveD, <<>>) :> DirNode) @@
    (RealPath(DriveC, <<sUsers>>) :> DirNode) @@
    (HomeDir :> DirNode) @@
    (DesktopDir :> DirNode) @@
    (PathJoin(DesktopDir, <<sATxt>>) :> FileNode(1)) @@
    (PathJoin(DesktopDir, <<sFoo>>) :> DirNode) @@
    (PathJoin(DesktopDir, <<sFoo, sATxt>>) :> FileNode(2)) @@
    (PathJoin(DesktopDir, <<sFoobar>>) :> DirNode) @@
    (VideosDir :> DirNode)

vRoot == LocalScheme
vDesktop == LocalScheme \o sDesktop \o <<SL>>
vDocuments == LocalScheme \o sDocuments \o <<SL>>
vATxt == vDesktop \o sATxt
vFoo == vDesktop \o sFoo \o <<SL>>
vFooATxt == vFoo \o sATxt
vFoobar == vDesktop \o sFoobar
vCRoot == ThisPCPrefix \o systemDriveDisplayName \o <<SL>>
vCUsers == vCRoot \o sUsers \o <<SL>>
vDRoot == ThisPCPrefix \o DriveLabel(sDrive, DriveD) \o <<SL>>
vCloud == GdriveScheme \o sFoo

SourceUniverse == {vATxt, vFoo, vFooATxt, vDesktop, vCRoot, vRoot, vCloud}
DestinationUniverse == {vDesktop, vDocuments, vFoo, vFoobar, vDRoot, vCUsers}
\* a drive root is no delete target here: the operating system refuses it
TargetUniverse == SourceUniverse \ {vCRoot}

SeqsUpTo(S, n) == UNION { [1..k -> S] : k \in 0..n }
Payload(isArray, sources, destination) ==
    [isArray |-> isArray, sources |-> sources, destination |-> destination]
CopyMovePayloads ==
    { Payload(TRUE, ss, d) : ss \in SeqsUpTo(SourceUniverse, MaxSources),
                             d \in DestinationUniverse }
    \cup { Payload(FALSE, <<>>, d) : d \in DestinationUniverse }
DeletePayloads ==
    { Payload(TRUE, ts, <<>>) : ts \in SeqsUpTo(TargetUniverse, MaxSources) }
    \cup { Payload(FALSE, <<>>, <<>>) }

sData == <<"D","a","t","a">>
vThisPC == ThisPCPrefix
vUnknownDrive == ThisPCPrefix \o sData \o <<SL>>
ListUniverse ==
    {vRoot, vThisPC, DropLast(vThisPC), vDesktop, vFoo, vDocuments, vCRoot, vCUsers, vDRoot,
     vATxt, vATxt \o <<SL>>, vFoobar, vCloud, vUnknownDrive}
\* a listing request carries one virtual path
ListRequest(virtualPath) == Payload(TRUE, <<virtualPath>>, <<>>)
ShortcutsRequest == Payload(TRUE, <<>>, <<>>)
\* the children of the directory a listing reads that may vanish meanwhile
ListedChildren(f, info) ==
    IF info.type = "entry" /\ info.isDirectory THEN Children(f, info.fsPath) ELSE {}
LostChoices(f, aliasMap, virtualPath) ==
    { lost \in SUBSET ListedChildren(f, resolveLocalVirtualPath(aliasMap, virtualPath)) :
        Cardinality(lost) <= MaxLost }

(***************************************************************************)
(* State: the disk, the module-level driveAliasMap, and the reply of the   *)
(* IPC call that completed last, until the renderer has taken it, and the  *)
(* number of calls made so far.  probe is one application of               *)
(* resolveLocalVirtualPath on its own: the path it is given, the alias map *)
(* it starts from and, once applied, what it returned.  task is one call   *)
(* of moveEntry taken step by step: where it stands, what its copy has     *)
(* still to do, the disk it started from and the fs calls it has made with *)
(* their results.  state and renderers are the fields of the               *)
(* SyncController, webContents the renderers' web contents, triggers the   *)
(* sync calls made so far and now the clock.                               *)
(***************************************************************************)
VARIABLES fs, driveAliasMap, reply, calls, probe, task,
          state, renderers, webContents, triggers, now
vars == <<fs, driveAliasMap, reply, calls, probe, task,
          state, renderers, webContents, triggers, now>>
\* the variables of the file handlers, and those of the sync controller
fileVars == <<fs, driveAliasMap, reply, calls, probe, task>>
syncVars == <<state, renderers, webContents, triggers, now>>

Unapplied(virtualPath) ==
    [path |-> virtualPath, applied |-> FALSE, aliasBefore |-> <<>>,
     outcome |-> ResolveError("none", <<>>)]
Applied(virtualPath, aliasMap, outcome) ==
    [path |-> virtualPath, applied |-> TRUE, aliasBefore |-> aliasMap, outcome |-> outcome]
NoProbe == Unapplied(<<>>)

Task(pc, sourceFs, destinationFs, todo, writing, error, start) ==
    [pc |-> pc, sourceFs |-> sourceFs, destinationFs |-> destinationFs, todo |-> todo,
     writing |-> writing, error |-> error, start |-> start, log |-> <<>>]
NoTask == Task("none", NoPath, NoPath, {}, NoPath, "none", <<>>)

NoReply ==
    [op |-> "none", payload |-> Payload(FALSE, <<>>, <<>>), error |-> "none",
     items |-> <<>>, log |-> <<>>, trail |-> <<>>,
     fsBefore |-> InitialFs, aliasBefore |-> InitialDriveAliasMap]
Reply(op, payload, out) ==
    [op |-> op, payload |-> payload, error |-> out.error, items |-> out.items,
     log |-> out.log, trail |-> out.trail, fsBefore |-> fs, aliasBefore |-> driveAliasMap]

Renderers == 1..MaxRenderers
\* new SyncController(), main.mjs line 13, with no call made and no renderer
\* subscribed
SyncConstructed ==
    /\ state = ConstructedState
    /\ renderers = {}
    /\ webContents = [r \in Renderers |-> WebContents(TRUE, NoStatus)]
    /\ triggers = <<>>
    /\ now = 0

WithinDepth(f) == \A p \in DOMAIN f : Len(p.segs) <= MaxDepth

Init ==
    /\ fs = InitialFs
    /\ driveAliasMap = InitialDriveAliasMap
    /\ reply = NoReply
    /\ calls = 0
    /\ probe = NoProbe
    /\ task = NoTask
    /\ SyncConstructed

Complete(op, payload, out) ==
    /\ calls < MaxCalls
    /\ WithinDepth(out.fs)
    /\ calls' = calls + 1
    /\ fs' = out.fs
    /\ driveAliasMap' = out.aliasMap
    /\ reply' = Reply(op, payload, out)
    /\ UNCHANGED <<probe, task, syncVars>>

\* ipcMain.handle('filesystem:copyItems'): the payload is passed on as it is,
\* so its move field (false when absent) decides between copy and move
CopyItems ==
    /\ reply.op = "none"
    /\ \E payload \in CopyMovePayloads, move \in BOOLEAN :
          Complete(IF move THEN "move" ELSE "copy", payload,
                   performCopyOrMove(fs, driveAliasMap, payload, move))

\* ipcMain.handle('filesystem:moveItems'): move is forced to true
MoveItems ==
    /\ reply.op = "none"
    /\ \E payload \in CopyMovePayloads :
          Complete("move", payload, performCopyOrMove(fs, driveAliasMap, payload, TRUE))

\* ipcMain.handle('filesystem:deleteItems')
DeleteItems ==
    /\ reply.op = "none"
    /\ \E payload \in DeletePayloads :
          Complete("delete", payload, handleDeleteItems(fs, driveAliasMap, payload))

\* ipcMain.handle('filesystem:listDirectory')
ListDirectory ==
    /\ reply.op = "none"
    /\ \E virtualPath \in ListUniverse :
          \E lost \in LostChoices(fs, driveAliasMap, virtualPath) :
              Complete("list", ListRequest(virtualPath),
                       handleListDirectory(fs, driveAliasMap, virtualPath, lost))

\* ipcMain.handle('filesystem:getLocalShortcuts'): the call has no argument
GetLocalShortcuts ==
    /\ reply.op = "none"
    /\ Complete("shortcuts", ShortcutsRequest, handleGetLocalShortcuts(fs, driveAliasMap))

\* the renderer's await returns: the reply (or the rejection) is consumed
Receive ==
    /\ reply.op # "none"
    /\ reply' = NoReply
    /\ UNCHANGED <<fs, driveAliasMap, calls, probe, task, syncVars>>

Next == CopyItems \/ MoveItems \/ DeleteItems \/ ListDirectory \/ GetLocalShortcuts \/ Receive

Spec == Init /\ [][Next]_vars

(***************************************************************************)
(* resolveLocalVirtualPath on its own: the path is drawn from the paths    *)
(* made of a prefix, a first component and a rest, the alias map from the  *)
(* maps the program can have built, and the one step applies the function. *)
(***************************************************************************)
sDesktopLower == <<"d","e","s","k","t","o","p">>
sDesktopx == sDesktop \o <<"x">>
sThisPCLower == <<"t","h","i","s"," ","p","c">>
sDriveLower == DriveLabel(sDrive, <<"d", ":">>)
sTwoLetters == <<"U","S","B"," ","(","e",":",")"," ","(","F",":",")">>
sDocs == <<"D","o","c","s">>

PrefixUniverse ==
    KnownSchemes \cup
    { <<>>,
      <<"L","o","c","a","l",":","/","/">>,
      <<"l","o","c","a","l",":","/">>,
      <<"l","o","c","a","l",":","/",Sep>>,
      <<"l","o","c","a","l",":",Sep,Sep>>,
      <<"f","i","l","e",":","/","/">> }
HeadUniverse ==
    { <<>>, sDesktop, sDocuments, sVideos, sDesktopLower, sDesktopx, ThisPC, sThisPCLower,
      ThisPC \o <<SL>> \o systemDriveDisplayName,
      ThisPC \o <<SL>> \o DriveLabel(sDrive, DriveD),
      ThisPC \o <<Sep>> \o sDriveLower,
      ThisPC \o <<SL>> \o sTwoLetters,
      ThisPC \o <<SL>> \o sData }
RestUniverse ==
    { <<>>, <<SL>>, <<SL>> \o sFoo, <<SL>> \o sFoo \o <<SL>>,
      <<SL>> \o sUsers \o <<SL>>,
      <<Sep>> \o sFoo \o <<Sep, Sep>> \o sATxt,
      <<SL, SL>> \o sFoo \o <<SL, SL>>,
      <<SL, ".", ".", SL>> \o sDocs \o <<SL>>,
      <<SL>> \o sFoo \o <<SL, ".", SL>> \o sATxt }
PathUniverse ==
    { prefix \o head \o rest :
        prefix \in PrefixUniverse, head \in HeadUniverse, rest \in RestUniverse }

\* the alias maps that resolutions and drive listings build from the initial one
AliasUniverse ==
    { InitialDriveAliasMap,
      (DriveLabel(sDrive, DriveD) :> DriveD) @@ InitialDriveAliasMap,
      (sDriveLower :> DriveD) @@ InitialDriveAliasMap,
      (sTwoLetters :> <<"E", ":">>) @@ (DriveLabel(sDrive, DriveD) :> DriveD)
          @@ InitialDriveAliasMap }

ResolverInit ==
    /\ fs = InitialFs
    /\ driveAliasMap \in AliasUniverse
    /\ reply = NoReply
    /\ calls = 0
    /\ probe \in { Unapplied(virtualPath) : virtualPath \in PathUniverse }
    /\ task = NoTask
    /\ SyncConstructed

Resolve ==
    /\ ~probe.applied
    /\ probe' = Applied(probe.path, driveAliasMap,
                        resolveLocalVirtualPath(driveAliasMap, probe.path))
    /\ driveAliasMap' = resolveLocalVirtualPath(driveAliasMap, probe.path).aliasMap
    /\ UNCHANGED <<fs, reply, calls, task, syncVars>>

ResolverNext == Resolve

ResolverSpec == ResolverInit /\ [][ResolverNext]_vars

(***************************************************************************)
(* The catalog of special locations on its own: the disk at start-up is    *)
(* any disk made of drive roots and special folders, and the renderer      *)
(* lists and asks for the shortcuts.  A disk without the system drive has  *)
(* nothing below it either.                                                *)
(***************************************************************************)
DriveE == <<"E", ":">>
CatalogDrives == {systemDrive, DriveD, DriveE}
Folders(S) == { specialFolders[i].fsPath : i \in S }
CatalogDisk(drives, S) ==
    [p \in { DriveRoot(drive) : drive \in drives }
           \cup (IF systemDrive \in drives THEN Ancestors(HomeDir) \cup Folders(S) ELSE {})
        |-> DirNode]
CatalogDisks ==
    { CatalogDisk(drives, S) : drives \in SUBSET CatalogDrives,
                               S \in SUBSET (1..Len(specialFolders)) }

CatalogInit ==
    /\ fs \in CatalogDisks
    /\ driveAliasMap = InitialDriveAliasMap
    /\ reply = NoReply
    /\ calls = 0
    /\ probe = NoProbe
    /\ task = NoTask
    /\ SyncConstructed

CatalogNext == ListDirectory \/ GetLocalShortcuts \/ Receive

CatalogSpec == CatalogInit /\ [][CatalogNext]_vars

(***************************************************************************)
(* moveEntry step by step.  Every await of moveEntry, copyEntry and        *)
(* deleteEntry is a step; fs.cp copies one node of the tree at a time,     *)
(* parents first, and fs.rm removes one node at a time, children first; a  *)
(* file is written in two steps, created empty and then filled.  Any step  *)
(* of the I/O may fail, and the process may die between any two steps.     *)
(***************************************************************************)
Truncated == FileNode(0)

\* lines 174-175: deleteEntry is awaited behind copyEntry, so it runs only
\* when copyEntry has not thrown
\* mutant: the source is deleted whatever the copy did
AfterCopyDeleteAnyway(error) == "rm"
AfterCopy(error) == IF error = "none" THEN "rm" ELSE "failed"

\* lines 171-178: what follows the rename
\* mutant: every failure of the rename takes the fallback
AfterRenameAnyFailure(error) == IF error = "none" THEN "done" ELSE "stat"
AfterRename(error) ==
    IF error = "none" THEN "done" ELSE IF error = "EXDEV" THEN "stat" ELSE "failed"

\* the variables that a step of moveEntry leaves alone
callVars == <<driveAliasMap, reply, calls, probe, syncVars>>

Advance(pc, error) == [task EXCEPT !.pc = pc, !.error = IF pc = "failed" THEN error ELSE "none"]
\* t with the fs call op and its result added to the log
Logged(t, op, error) == [t EXCEPT !.log = Append(@, [op |-> op, error |-> error])]

\* line 169
MoveEnsureDirectory ==
    /\ task.pc = "mkdir"
    /\ fs' = ensureDirectory(fs, PathDirname(task.destinationFs)).fs
    /\ task' = Logged(Advance(IF ensureDirectory(fs, PathDirname(task.destinationFs)).error = "none"
                              THEN "rename" ELSE "failed",
                              ensureDirectory(fs, PathDirname(task.destinationFs)).error),
                      "mkdir", ensureDirectory(fs, PathDirname(task.destinationFs)).error)
    /\ UNCHANGED callVars

\* line 171
MoveRename ==
    /\ task.pc = "rename"
    /\ fs' = fsRename(fs, task.sourceFs, task.destinationFs).fs
    /\ task' = Logged(Advance(AfterRename(fsRename(fs, task.sourceFs, task.destinationFs).error),
                              fsRename(fs, task.sourceFs, task.destinationFs).error),
                      "rename", fsRename(fs, task.sourceFs, task.destinationFs).error)
    /\ UNCHANGED callVars

\* lines 159-161: the stat of copyEntry, and for a directory the checks fs.cp
\* makes before it copies
StatDone(t) == Logged(t, "stat", "none")
CpRefused(error) == Logged(StatDone(Advance(AfterCopy(error), error)), "cp", error)
CopyStat ==
    /\ task.pc = "stat"
    /\ task' =
          IF ~Exists(fs, task.sourceFs)
          THEN Logged(Advance(AfterCopy("ENOENT"), "ENOENT"), "stat", "ENOENT")
          ELSE IF ~IsDir(fs, task.sourceFs) THEN StatDone(Advance("mkdirParent", "none"))
          ELSE IF IsUnder(task.sourceFs, task.destinationFs) THEN CpRefused("ERR_FS_CP_EINVAL")
          ELSE IF IsFile(fs, task.destinationFs) THEN CpRefused("ERR_FS_CP_DIR_TO_NON_DIR")
          ELSE StatDone([task EXCEPT !.pc = "cp", !.todo = Subtree(fs, task.sourceFs)])
    /\ UNCHANGED fs
    /\ UNCHANGED callVars

Image(q) == Rebase(q, task.sourceFs, task.destinationFs)
\* the copy has one node less to do; with none left copyEntry returns
Copied(q) ==
    IF task.todo \ {q} = {}
    THEN Logged([task EXCEPT !.pc = AfterCopy("none"), !.todo = {}, !.writing = NoPath],
                "cp", "none")
    ELSE [task EXCEPT !.todo = task.todo \ {q}, !.writing = NoPath]

\* line 161, fs.cp: the next node is made at the destination, a directory as
\* it is and a file empty at first
CpNode ==
    /\ task.pc = "cp"
    /\ task.writing = NoPath
    /\ \E q \in task.todo :
          /\ q = task.sourceFs \/ PathDirname(q) \notin task.todo
          /\ IF Exists(fs, Image(q)) /\ fs[Image(q)].kind # fs[q].kind
             THEN /\ task' = Logged(Advance(AfterCopy("EISDIR"), "EISDIR"), "cp", "EISDIR")
                  /\ UNCHANGED fs
             ELSE IF IsDir(fs, q)
             THEN /\ fs' = (Image(q) :> DirNode) @@ fs
                  /\ task' = Copied(q)
             ELSE /\ fs' = (Image(q) :> Truncated) @@ fs
                  /\ task' = [task EXCEPT !.writing = q]
    /\ UNCHANGED callVars

\* line 161, fs.cp: the file under way is filled
CpWrite ==
    /\ task.pc = "cp"
    /\ task.writing # NoPath
    /\ fs' = (Image(task.writing) :> fs[task.writing]) @@ fs
    /\ task' = Copied(task.writing)
    /\ UNCHANGED callVars

\* line 163
CopyEnsureDirectory ==
    /\ task.pc = "mkdirParent"
    /\ fs' = ensureDirectory(fs, PathDirname(task.destinationFs)).fs
    /\ task' =
          Logged(IF ensureDirectory(fs, PathDirname(task.destinationFs)).error = "none"
                 THEN Advance("copyFile", "none")
                 ELSE Advance(AfterCopy(ensureDirectory(fs, PathDirname(task.destinationFs)).error),
                              ensureDirectory(fs, PathDirname(task.destinationFs)).error),
                 "mkdir", ensureDirectory(fs, PathDirname(task.destinationFs)).error)
    /\ UNCHANGED callVars

\* line 164, fs.copyFile: the destination is opened, which empties it
CopyFileOpen ==
    /\ task.pc = "copyFile"
    /\ task.writing = NoPath
    /\ IF fsCopyFile(fs, task.sourceFs, task.destinationFs).error # "none"
       THEN /\ task' = Logged(Advance(AfterCopy(fsCopyFile(fs, task.sourceFs,
                                                           task.destinationFs).error),
                                      fsCopyFile(fs, task.sourceFs, task.destinationFs).error),
                              "copyFile",
                              fsCopyFile(fs, task.sourceFs, task.destinationFs).error)
            /\ UNCHANGED fs
       ELSE /\ fs' = (task.destinationFs :> Truncated) @@ fs
            /\ task' = [task EXCEPT !.writing = task.sourceFs]
    /\ UNCHANGED callVars

\* line 164, fs.copyFile: the destination is filled
CopyFileWrite ==
    /\ task.pc = "copyFile"
    /\ task.writing # NoPath
    /\ fs' = fsCopyFile(fs, task.sourceFs, task.destinationFs).fs
    /\ task' = Logged([task EXCEPT !.pc = AfterCopy("none"), !.writing = NoPath],
                      "copyFile", "none")
    /\ UNCHANGED callVars

\* lines 175 and 183, fs.rm: a node of the source without children is
\* removed; with the source itself gone (or absent at the start) rm returns
RmNode ==
    /\ task.pc = "rm"
    /\ IF ~Exists(fs, task.sourceFs)
       THEN /\ task' = Logged(Advance("done", "none"), "rm", "none")
            /\ UNCHANGED fs
       ELSE \E q \in Subtree(fs, task.sourceFs) :
               /\ Subtree(fs, q) = {q}
               /\ fs' = Without(fs, {q})
               /\ task' = IF q = task.sourceFs
                          THEN Logged(Advance("done", "none"), "rm", "none")
                          ELSE task
    /\ UNCHANGED callVars

\* the I/O of a step fails (the disk is full, a file is locked): the call
\* under way throws, which ends copyEntry or moveEntry
IoFailure ==
    /\ task.pc \in {"rename", "cp", "copyFile", "rm"}
    /\ task' = Logged([Advance(IF task.pc \in {"cp", "copyFile"} THEN AfterCopy("EIO")
                               ELSE IF task.pc = "rename" THEN AfterRename("EIO")
                               ELSE "failed",
                               "EIO") EXCEPT !.writing = NoPath],
                      task.pc, "EIO")
    /\ UNCHANGED fs
    /\ UNCHANGED callVars

\* the process dies
Crash ==
    /\ task.pc \in {"mkdir", "rename", "stat", "cp", "mkdirParent", "copyFile", "rm"}
    /\ task' = [task EXCEPT !.pc = "crashed"]
    /\ UNCHANGED fs
    /\ UNCHANGED callVars

\* the disks a move starts on: the start-up disk and the same with entries on
\* D: already: a file a.txt, a directory where the file foo\a.txt is to go,
\* a Desktop that holds a file already; and the same with a directory foo in
\* Desktop\foobar already
MoveDisks ==
    { InitialFs,
      (PathJoin(DesktopDir, <<sFoobar, sFoo>>) :> DirNode) @@ InitialFs,
      (RealPath(DriveD, <<sATxt>>) :> FileNode(2)) @@ InitialFs,
      (RealPath(DriveD, <<sFoo>>) :> DirNode) @@ (RealPath(DriveD, <<sFoo, sATxt>>) :> DirNode)
          @@ InitialFs,
      (RealPath(DriveD, <<sDesktop>>) :> DirNode)
          @@ (RealPath(DriveD, <<sDesktop, sATxt>>) :> FileNode(2)) @@ InitialFs }
MoveSources ==
    { PathJoin(DesktopDir, <<sATxt>>), PathJoin(DesktopDir, <<sFoo>>),
      PathJoin(DesktopDir, <<sFoo, sATxt>>), DesktopDir }
MoveDestinations ==
    { RealPath(DriveD, <<>>), RealPath(DriveD, <<sFoo>>), VideosDir, DesktopDir,
      PathJoin(DesktopDir, <<sFoobar>>) }
\* the calls of moveEntry that performCopyOrMove makes, line 352: the source
\* exists, the destination directory has been made, and the target is
\* neither the source nor inside it
MoveCalls(f) ==
    { <<sourceFs, PathJoin(destFs, <<PathBasename(sourceFs)>>)>> :
        sourceFs \in { p \in MoveSources : Exists(f, p) },
        destFs \in { p \in MoveDestinations : IsDir(f, p) } }
    \ { call \in MoveSources \X { PathJoin(d, <<PathBasename(p)>>) :
                                      d \in MoveDestinations, p \in MoveSources } :
           \/ IsSamePath(PathResolve(call[1]), PathResolve(call[2]))
           \/ IsInsideSource(PathResolve(call[1]), PathResolve(call[2])) }

MoveEntryInit ==
    /\ fs \in MoveDisks
    /\ driveAliasMap = InitialDriveAliasMap
    /\ reply = NoReply
    /\ calls = 0
    /\ probe = NoProbe
    /\ task \in { Task("mkdir", call[1], call[2], {}, NoPath, "none", f) :
                     f \in MoveDisks, call \in UNION { MoveCalls(g) : g \in MoveDisks } }
    /\ task.start = fs
    /\ <<task.sourceFs, task.destinationFs>> \in MoveCalls(fs)
    /\ SyncConstructed

MoveEntryNext ==
    \/ MoveEnsureDirectory \/ MoveRename \/ CopyStat \/ CpNode \/ CpWrite
    \/ CopyEnsureDirectory \/ CopyFileOpen \/ CopyFileWrite \/ RmNode
    \/ IoFailure \/ Crash

MoveEntrySpec == MoveEntryInit /\ [][MoveEntryNext]_vars

(***************************************************************************)
(* The sync controller on its own: the renderers call sync:trigger and     *)
(* sync:getStatus and subscribe, their windows are closed, the clock runs  *)
(* and the timers of setTimeout fire when they are due.                    *)
(***************************************************************************)
\* updateState(patch), lines 53-68
UpdateState(patch) ==
    /\ state' = Patched(state, patch)
    /\ webContents' = SentTo(renderers, webContents,
                             toSerializableStatus(Patched(state, patch)))
    /\ renderers' = Receivers(renderers, webContents)

\* ipcMain.handle('sync:trigger'): triggerSync up to its await, lines 33-39
TriggerSync ==
    /\ Len(triggers) < MaxTriggers
    /\ now + Delay <= MaxClock
    /\ IF IsSyncing(state)
       THEN /\ triggers' = Append(triggers, Call("trigger", "returned", now,
                                                 toSerializableStatus(state)))
            /\ UNCHANGED <<state, renderers, webContents>>
       ELSE /\ UpdateState(SyncingPatch)
            /\ triggers' = Append(triggers, Call("trigger", "sleeping", now + Delay, NoStatus))
    /\ UNCHANGED <<now, fileVars>>

\* the timer of a sleeping triggerSync fires: lines 41-50
TimerFires ==
    /\ \E i \in 1..Len(triggers) :
          /\ triggers[i].phase = "sleeping"
          /\ triggers[i].due <= now
          /\ UpdateState(IdlePatch(DateAt(now)))
          /\ triggers' = [triggers EXCEPT ![i] =
                             Call("trigger", "returned", triggers[i].due,
                                  toSerializableStatus(Patched(state, IdlePatch(DateAt(now)))))]
    /\ UNCHANGED <<now, fileVars>>

\* time passes
Tick ==
    /\ now < MaxClock
    /\ now' = now + 1
    /\ UNCHANGED <<state, renderers, webContents, triggers, fileVars>>

\* ipcMain.handle('sync:getStatus')
GetStatus ==
    /\ Len(triggers) < MaxTriggers
    /\ triggers' = Append(triggers, Call("getStatus", "returned", now,
                                        toSerializableStatus(state)))
    /\ UNCHANGED <<state, renderers, webContents, now, fileVars>>

\* ipcMain.on('sync:subscribe'): registerRenderer, lines 70-78
Subscribe ==
    /\ \E r \in Renderers :
          /\ webContents[r].alive
          /\ r \notin renderers
          /\ renderers' = renderers \cup {r}
          /\ webContents' = [webContents EXCEPT ![r] =
                                WebContents(TRUE, toSerializableStatus(state))]
    /\ UNCHANGED <<state, triggers, now, fileVars>>

\* a renderer's window is closed: its web contents is destroyed
Destroy ==
    /\ \E r \in Renderers :
          /\ webContents[r].alive
          /\ webContents' = [webContents EXCEPT ![r] = WebContents(FALSE, webContents[r].last)]
    /\ UNCHANGED <<state, renderers, triggers, now, fileVars>>

\* the 'destroyed' event of a registered web contents, lines 73-75
Destroyed ==
    /\ \E r \in renderers :
          /\ ~webContents[r].alive
          /\ renderers' = renderers \ {r}
    /\ UNCHANGED <<state, webContents, triggers, now, fileVars>>

SyncInit ==
    /\ fs = InitialFs
    /\ driveAliasMap = InitialDriveAliasMap
    /\ reply = NoReply
    /\ calls = 0
    /\ probe = NoProbe
    /\ task = NoTask
    /\ SyncConstructed

SyncNext ==
    TriggerSync \/ TimerFires \/ Tick \/ GetStatus \/ Subscribe \/ Destroy \/ Destroyed

SyncSpec == SyncInit /\ [][SyncNext]_vars

\* the event loop runs every timer that is due, and time passes
SyncLiveSpec == SyncSpec /\ WF_vars(TimerFires) /\ WF_vars(Tick)

(***************************************************************************)
(* Properties.  They speak about the reply of the call that completed      *)
(* last: its payload, the disk and alias map it started from (fsBefore,    *)
(* aliasBefore) and the ones it left (fs, driveAliasMap).                  *)
(***************************************************************************)
IsCopyOrMoveReply == reply.op \in {"copy", "move"}
HasInput == reply.payload.isArray /\ Len(reply.payload.sources) > 0
RequestedDestination ==
    resolveLocalVirtualPath(reply.aliasBefore,
                            normalizeDestinationVirtual(reply.payload.destination))
IsConcrete(virtualPath) ==
    resolveLocalVirtualPath(reply.aliasBefore, virtualPath).type = "entry"
\* the fs calls of the reply's log that copy, rename or delete the real path p
TransferCallsOn(p) ==
    { k \in 1..Len(reply.log) :
        reply.log[k].op \in {"cp", "copyFile", "rename", "rm"} /\ reply.log[k].path = p }

\* C1: a copy or move call with a source that is no ConcreteEntry (or cannot
\* be resolved), at any position, fails and leaves the filesystem as it was:
\* no earlier source copied or moved, no destination directory created
C1_UnsupportedSourceNoPartialApplication ==
    (/\ IsCopyOrMoveReply
     /\ HasInput
     /\ \E i \in 1..Len(reply.payload.sources) : ~IsConcrete(reply.payload.sources[i]))
    => (reply.error # "none" /\ fs = reply.fsBefore)

\* C2: when the loop reaches a source that is a directory and the destination
\* directory's real path is that source or lies inside it, the call fails with
\* the self-containment error and no copy, rename or delete ran for the source
C2_DestinationInsideSourceRejected ==
    IsCopyOrMoveReply =>
        \A i \in 1..Len(reply.trail) :
            (/\ reply.trail[i].isDirectory
             /\ RequestedDestination.type = "entry"
             /\ IsUnder(reply.trail[i].sourceFs, RequestedDestination.fsPath))
            => (/\ reply.error = "SelfContainment"
                /\ TransferCallsOn(reply.trail[i].sourceFs) = {})

\* C2 restricted to sources that are not a drive root (diagnostic for C2)
C2_HoldsBelowDriveRoots ==
    IsCopyOrMoveReply =>
        \A i \in 1..Len(reply.trail) :
            (/\ reply.trail[i].isDirectory
             /\ reply.trail[i].sourceFs.segs # <<>>
             /\ RequestedDestination.type = "entry"
             /\ IsUnder(reply.trail[i].sourceFs, RequestedDestination.fsPath))
            => (/\ reply.error = "SelfContainment"
                /\ TransferCallsOn(reply.trail[i].sourceFs) = {})

\* the sources the loop reached that exist and were not skipped as identical
ReachedAndCompared(i) == reply.trail[i].verdict \in {"selfContained", "failed", "done"}
\* s followed by one path separator is a string prefix of t
SeparatedPrefix(s, t) ==
    \E n \in 0..Len(t) : t = s \o <<Sep>> \o SubSeq(t, Len(t) - n + 1, Len(t))
IsSiblingWithLongerName(i) ==
    LET src == reply.trail[i].sourceFs
        dst == RequestedDestination.fsPath
    IN /\ src.segs # <<>> /\ dst.segs # <<>>
       /\ PathDirname(src) = PathDirname(dst)
       /\ PathBasename(src) # PathBasename(dst)
       /\ StartsWith(PathBasename(dst), PathBasename(src))

\* C3: for every source the loop reached (existing, not skipped), the
\* self-containment error is raised exactly when the resolved source path
\* followed by a separator is a prefix of the resolved target path; a sibling
\* destination whose name only starts with the source's name raises none
C3_SelfContainmentIffSeparatedPrefix ==
    IsCopyOrMoveReply =>
        \A i \in 1..Len(reply.trail) :
            ReachedAndCompared(i) =>
                /\ (reply.trail[i].verdict = "selfContained")
                     <=> SeparatedPrefix(PathResolve(reply.trail[i].sourceFs),
                                         PathResolve(reply.trail[i].targetFs))
                /\ (reply.trail[i].verdict = "selfContained")
                     <=> (i = Len(reply.trail) /\ reply.error = "SelfContainment")
                /\ IsSiblingWithLongerName(i) => reply.trail[i].verdict # "selfContained"

\* witness of C3: one call in which a source was copied into a sibling whose
\* name starts with the source's name, and a later source contained the
\* destination and raised the error
C3_Witness ==
    /\ IsCopyOrMoveReply
    /\ reply.error = "SelfContainment"
    /\ \E i, j \in 1..Len(reply.trail) :
          /\ IsSiblingWithLongerName(i) /\ reply.trail[i].verdict = "done"
          /\ reply.trail[j].verdict = "selfContained"

\* C4: every source whose resolved real path equals its computed target path
\* is skipped: no error for it, no fs change for it, the remaining sources are
\* still processed, and repeating the call leaves the filesystem unchanged
IsIdenticalToTarget(i) ==
    /\ reply.trail[i].verdict \notin {"unresolved", "unsupported"}
    /\ PathResolve(reply.trail[i].sourceFs) = PathResolve(reply.trail[i].targetFs)
SkippedCleanly(i) ==
    /\ reply.trail[i].verdict = "skipped"
    /\ \A k \in 1..Len(reply.log) :
          reply.log[k].path = reply.trail[i].sourceFs => reply.log[k].op \in {"stat", "access"}
    /\ i < Len(reply.payload.sources) => Len(reply.trail) > i
    /\ performCopyOrMove(fs, driveAliasMap, reply.payload, reply.op = "move").fs = fs
C4_IdenticalSourceSkipped ==
    IsCopyOrMoveReply =>
        \A i \in 1..Len(reply.trail) : IsIdenticalToTarget(i) => SkippedCleanly(i)

\* C4, amended: every source that exists on disk when the loop reaches it and
\* whose resolved real path equals its computed target path is skipped: no
\* error for it, no fs change for it, the remaining sources are still
\* processed, and repeating the call leaves the filesystem unchanged
C4_ExistingIdenticalSourceSkipped ==
    IsCopyOrMoveReply =>
        \A i \in 1..Len(reply.trail) :
            (IsIdenticalToTarget(i) /\ reply.trail[i].verdict # "missing")
            => SkippedCleanly(i)

\* witness of C4: a skipped source followed by a source that was processed
C4_Witness ==
    /\ IsCopyOrMoveReply
    /\ reply.error = "none"
    /\ \E i \in 1..Len(reply.trail) :
          /\ i < Len(reply.trail)
          /\ reply.trail[i].verdict = "skipped"
          /\ reply.trail[i + 1].verdict = "done"

\* a move of one source whose rename failed with the cross-device error: the
\* rename is followed in the log by the calls of the fallback
IsFallbackMove ==
    /\ reply.op = "move"
    /\ Len(reply.payload.sources) = 1
    /\ Len(reply.trail) = 1
    /\ \E k \in 1..Len(reply.log) : reply.log[k].op = "rename" /\ k < Len(reply.log)
\* the same move done by a rename on one device, from the same filesystem
RenamedInstead ==
    LET src == reply.trail[1].sourceFs
        dst == reply.trail[1].targetFs
        prepared == ensureDirectory(ensureDirectory(reply.fsBefore,
                                                    RequestedDestination.fsPath).fs,
                                    PathDirname(dst)).fs
    IN RenameOnDevice(prepared, src, dst)
MovedIntact(before, after, src, dst) ==
    /\ Subtree(after, src) = {}
    /\ Subtree(after, dst) = { Rebase(q, src, dst) : q \in Subtree(before, src) }
    /\ \A q \in Subtree(before, src) : after[Rebase(q, src, dst)] = before[q]

\* C5: a move that takes the cross-device fallback ends in the same filesystem
\* and with the same success or failure as the same move done by a rename on
\* one device: source absent, destination present with the source's content
C5_FallbackEqualsRename ==
    IsFallbackMove =>
        /\ (reply.error = "none") <=> (RenamedInstead.error = "none")
        /\ fs = RenamedInstead.fs
        /\ reply.error = "none" =>
              MovedIntact(reply.fsBefore, fs, reply.trail[1].sourceFs, reply.trail[1].targetFs)

\* C5 restricted to moves whose target path is not an existing directory
\* (diagnostic)
C5_HoldsWithoutDirectoryAtTarget ==
    (IsFallbackMove /\ ~IsDir(reply.fsBefore, reply.trail[1].targetFs)) =>
        /\ (reply.error = "none") <=> (RenamedInstead.error = "none")
        /\ fs = RenamedInstead.fs
        /\ reply.error = "none" =>
              MovedIntact(reply.fsBefore, fs, reply.trail[1].sourceFs, reply.trail[1].targetFs)

\* C6: deleteItems on targets that all resolve to a ConcreteEntry succeeds
\* whether or not a target exists; with every target absent the filesystem is
\* unchanged; and deleting a second time leaves what the first delete left
IsDeleteOfConcreteTargets ==
    /\ reply.op = "delete"
    /\ HasInput
    /\ \A i \in 1..Len(reply.payload.sources) : IsConcrete(reply.payload.sources[i])
TargetFs(i) == resolveLocalVirtualPath(reply.aliasBefore, reply.payload.sources[i]).fsPath
C7_NoInputFailsFirst ==
    (reply.op \in {"copy", "move", "delete"} /\ ~HasInput) =>
        /\ reply.error = "NoInput"
        /\ reply.log = <<>>
        /\ reply.trail = <<>>
        /\ fs = reply.fsBefore
        /\ driveAliasMap = reply.aliasBefore

\* witness of C7: a copy or move with an empty source list whose destination
\* would have added an alias and been created, had it been resolved
C7_Witness ==
    /\ IsCopyOrMoveReply
    /\ reply.payload.isArray /\ reply.payload.sources = <<>>
    /\ reply.error = "NoInput"
    /\ RequestedDestination.type = "entry"
    /\ RequestedDestination.aliasMap # reply.aliasBefore

\* C8: a deleteItems call with a target that is no ConcreteEntry (or cannot be
\* resolved), at any position, throws and has removed no target of the list
C8_UnsupportedTargetNoPartialDelete ==
    (/\ reply.op = "delete"
     /\ HasInput
     /\ \E i \in 1..Len(reply.payload.sources) : ~IsConcrete(reply.payload.sources[i]))
    => (reply.error # "none" /\ fs = reply.fsBefore)

\* C9: a successful copy or move returns as items exactly the sources that
\* were not skipped, in input order, each with the source string as supplied
\* and the destination: the destination virtual path ending in '/', the base
\* name of the source's real path, and a '/' exactly for a directory source
SourceFs(i) == resolveLocalVirtualPath(reply.aliasBefore, reply.payload.sources[i]).fsPath
TargetOf(i) == PathJoin(RequestedDestination.fsPath, <<PathBasename(SourceFs(i))>>)
WasDirectory(i) ==
    IF reply.op = "copy" THEN IsDir(fs, SourceFs(i)) ELSE IsDir(fs, TargetOf(i))
SlashTerminated(virtual) ==
    IF virtual # <<>> /\ virtual[Len(virtual)] = SL THEN virtual ELSE Append(virtual, SL)
RECURSIVE ExpectedItems(_)
ExpectedItems(i) ==
    IF i > Len(reply.payload.sources) THEN <<>>
    ELSE IF SourceFs(i) = TargetOf(i) THEN ExpectedItems(i + 1)
    ELSE << [source |-> reply.payload.sources[i],
             destination |-> Concat(<< SlashTerminated(reply.payload.destination),
                                       PathBasename(SourceFs(i)),
                                       IF WasDirectory(i) THEN <<SL>> ELSE <<>> >>)] >>
         \o ExpectedItems(i + 1)
NumberOfSkips == Cardinality({ i \in 1..Len(reply.trail) : reply.trail[i].verdict = "skipped" })
C9_ItemsListProcessedSources ==
    (IsCopyOrMoveReply /\ reply.error = "none") =>
        /\ reply.items = ExpectedItems(1)
        /\ Len(reply.items) = Len(reply.payload.sources) - NumberOfSkips

\* witness of C9: a successful call that skipped one source and returned an
\* item for another
C9_Witness ==
    /\ IsCopyOrMoveReply
    /\ reply.error = "none"
    /\ Len(reply.payload.sources) = 2
    /\ Len(reply.items) = 1
    /\ NumberOfSkips = 1

\* C10: when the destination resolves to a directory that is not on disk, the
\* directory and its missing parents are created before the first source is
\* processed, and the call goes on to the sources; copying
\* local://Desktop/a.txt to a missing local://Documents/ creates Documents and
\* returns the one item local://Documents/a.txt
HasMissingDestination ==
    /\ IsCopyOrMoveReply
    /\ HasInput
    /\ RequestedDestination.type = "entry"
    /\ RequestedDestination.isDirectory
    /\ ~Exists(reply.fsBefore, RequestedDestination.fsPath)
IsDocumentsScenario ==
    /\ reply.op = "copy"
    /\ reply.payload.sources = <<vATxt>>
    /\ reply.payload.destination = vDocuments
    /\ IsFile(reply.fsBefore, PathJoin(DesktopDir, <<sATxt>>))
    /\ ~Exists(reply.fsBefore, DocumentsDir)
C10_MissingDestinationCreatedFirst ==
    /\ HasMissingDestination =>
          /\ Len(reply.log) >= 2
          /\ reply.log[1] = IoCall("access", RequestedDestination.fsPath, NoPath)
          /\ reply.log[2] = IoCall("mkdir", RequestedDestination.fsPath, NoPath)
          /\ \A a \in Ancestors(RequestedDestination.fsPath) : IsDir(fs, a)
          /\ Len(reply.trail) >= 1
    /\ IsDocumentsScenario =>
          /\ reply.error = "none"
          /\ reply.items = << [source |-> vATxt, destination |-> vDocuments \o sATxt] >>
          /\ IsDir(fs, DocumentsDir)
          /\ fs[PathJoin(DocumentsDir, <<sATxt>>)] = reply.fsBefore[PathJoin(DesktopDir, <<sATxt>>)]

\* witness of C10: the Documents scenario has run
C10_Witness == IsDocumentsScenario /\ reply.error = "none" /\ Len(reply.items) = 1

(***************************************************************************)
(* Properties of resolveLocalVirtualPath, checked under ResolverSpec on    *)
(* the probe.  The probed path is taken with its separators normalized:    *)
(* every run of backslashes read as one '/'.                               *)
(***************************************************************************)
KeptPositions(path) ==
    { i \in 1..Len(path) : ~(path[i] = Sep /\ i < Len(path) /\ path[i + 1] = Sep) }
NthOf(S, n) == CHOOSE i \in S : Cardinality({ j \in S : j < i }) = n - 1
Normalized(path) ==
    [n \in 1..Cardinality(KeptPositions(path)) |->
        IF path[NthOf(KeptPositions(path), n)] = Sep THEN SL
        ELSE path[NthOf(KeptPositions(path), n)]]
ProbedPath == Normalized(probe.path)

\* the non-empty '/'-separated segments of s: its maximal runs without '/'
SegmentStarts(s) == { i \in 1..Len(s) : s[i] # SL /\ (i = 1 \/ s[i - 1] = SL) }
SegmentEnd(s, i) ==
    CHOOSE j \in i..Len(s) : (\A k \in i..j : s[k] # SL) /\ (j = Len(s) \/ s[j + 1] = SL)
SegmentsOf(s) ==
    [n \in 1..Cardinality(SegmentStarts(s)) |->
        SubSeq(s, NthOf(SegmentStarts(s), n), SegmentEnd(s, NthOf(SegmentStarts(s), n)))]

IsEntry(outcome, realPath, isDirectory) ==
    /\ outcome.type = "entry"
    /\ outcome.fsPath = realPath
    /\ outcome.isDirectory = isDirectory

\* C11: for every special folder F with virtual prefix V, resolving V or V
\* without its trailing '/' gives the concrete entry of F's real path, a
\* directory; resolving V + rest gives F's real path joined with the
\* non-empty '/'-separated segments of rest, a directory iff the path ends
\* in '/' or rest has no such segment
ResolvesInFolder(folder, path, rest, outcome) ==
    /\ path \in {folder.virtual, DropLast(folder.virtual)}
       => IsEntry(outcome, folder.fsPath, TRUE)
    /\ StartsWith(path, folder.virtual)
       => IsEntry(outcome, PathJoin(folder.fsPath, SegmentsOf(rest)),
                  EndsWith(path, <<SL>>) \/ SegmentStarts(rest) = {})
ResolvesSpecialFolders(path, outcome) ==
    \A k \in 1..Len(specialFolders) :
        ResolvesInFolder(specialFolders[k], path,
                         Slice(path, Len(specialFolders[k].virtual)), outcome)
C11_SpecialFolderResolution ==
    probe.applied => ResolvesSpecialFolders(ProbedPath, probe.outcome)

\* witness of C11: a file two segments below a special folder, written with
\* backslashes
C11_Witness ==
    /\ probe.applied
    /\ probe.path = LocalScheme \o sDesktop \o <<Sep>> \o sFoo \o <<Sep, Sep>> \o sATxt
    /\ IsEntry(probe.outcome, PathJoin(DesktopDir, <<sFoo, sATxt>>), FALSE)

\* the probed path has the shape local://This PC/<label>/<rest>: label is the
\* non-empty run up to the next '/', rest what follows it
BelowThisPC == Slice(ProbedPath, Len(ThisPCPrefix))
IsDrivePath ==
    /\ StartsWith(ProbedPath, ThisPCPrefix)
    /\ BelowThisPC # <<>>
    /\ Head(BelowThisPC) # SL
LabelOf(below) ==
    SubSeq(below, 1, CHOOSE n \in 1..Len(below) :
                         /\ \A i \in 1..n : below[i] # SL
                         /\ (n = Len(below) \/ below[n + 1] = SL))
LetterPatterns(label) ==
    { i \in 1..(Len(label) - 3) :
        /\ label[i] = "(" /\ label[i + 2] = ":" /\ label[i + 3] = ")"
        /\ \E k \in 1..26 : label[i + 1] \in {LowerLetters[k], UpperLetters[k]} }
UpperCased(c) ==
    IF \E k \in 1..26 : LowerLetters[k] = c
    THEN UpperLetters[CHOOSE k \in 1..26 : LowerLetters[k] = c]
    ELSE c
\* the letter the claim derives for a label: the alias entry when there is
\* one, else the upper-cased letter of the first "(X:)" in it, else none
DerivedLetter(aliasMap, label) ==
    IF label \in DOMAIN aliasMap THEN aliasMap[label]
    ELSE IF LetterPatterns(label) # {}
    THEN <<UpperCased(label[NthOf(LetterPatterns(label), 1) + 1]), ":">>
    ELSE <<>>
ResolvesOnDrive(path, label, rest, letter, outcome) ==
    IF letter = <<>>
    THEN /\ outcome.type = "error"
         /\ outcome.error = "UnknownDrive"
         /\ driveAliasMap = probe.aliasBefore
    ELSE /\ IsEntry(outcome, PathJoin(RealPath(letter, <<>>), SegmentsOf(rest)),
                    EndsWith(path, <<SL>>) \/ SegmentStarts(rest) = {})
         /\ driveAliasMap = (label :> letter) @@ probe.aliasBefore
UsersOnC == ThisPCPrefix \o systemDriveDisplayName \o <<SL>> \o sUsers \o <<SL>>
CUsersString == <<"C", ":", Sep, "U", "s", "e", "r", "s">>

\* C12: a path local://This PC/<label>/<rest> resolves on the drive whose
\* letter is the alias of label or, without one, the upper-cased letter of
\* the "(X:)" in label, which then is in the alias map; the real path is the
\* drive root joined with the segments of rest, a directory iff the path
\* ends in '/' or rest has no segment; 'local://This PC/Local Disk (C:)/Users/'
\* gives the directory C:\Users; without a letter the call fails with
\* UnknownDrive and the alias map is as before
C12_DrivePathResolution ==
    /\ (probe.applied /\ IsDrivePath) =>
           ResolvesOnDrive(ProbedPath, LabelOf(BelowThisPC),
                           Slice(BelowThisPC, Len(LabelOf(BelowThisPC))),
                           DerivedLetter(probe.aliasBefore, LabelOf(BelowThisPC)),
                           probe.outcome)
    /\ (probe.applied /\ probe.path = UsersOnC) =>
           /\ PathResolve(probe.outcome.fsPath) = CUsersString
           /\ probe.outcome.isDirectory

\* witness of C12: a label without alias, its lower-case letter upper-cased
\* and entered into the alias map
C12_Witness ==
    /\ probe.applied
    /\ IsDrivePath
    /\ LabelOf(BelowThisPC) = sDriveLower
    /\ sDriveLower \notin DOMAIN probe.aliasBefore
    /\ probe.outcome.type = "entry"
    /\ probe.outcome.fsPath.drive = DriveD
    /\ probe.outcome.fsPath.segs # <<>>
    /\ driveAliasMap[sDriveLower] = DriveD

\* the remainder of path behind the scheme prefix it starts with
RemaindersIn(schemes, path) ==
    { Slice(path, Len(scheme)) : scheme \in { sch \in schemes : StartsWith(path, sch) } }
ThisPCForms == {ThisPC, ThisPC \o <<SL>>}
ListingVariantsExactly(schemes, path, outcome) ==
    /\ outcome.type = "root" <=> <<>> \in RemaindersIn(schemes, path)
    /\ outcome.type = "drives" <=> RemaindersIn(schemes, path) \cap ThisPCForms # {}
    /\ outcome.type \in {"root", "drives"} => outcome.fsPath = NoPath

\* C13: the resolution is the root listing exactly when the path, separators
\* normalized, is a known scheme prefix with nothing behind it, and the drive
\* listing exactly when what is behind it is 'This PC' or 'This PC/'; neither
\* carries a real path
C13_ListingVariantsOfKnownSchemes ==
    probe.applied => ListingVariantsExactly(KnownSchemes, ProbedPath, probe.outcome)

\* C13, amended: the resolution is the root listing exactly when the path,
\* separators normalized, is 'local://', and the drive listing exactly when
\* it is 'local://This PC' or 'local://This PC/'; no other path, with another
\* scheme prefix or in another case, gives either, and neither carries a
\* real path
C13_ListingVariantsOfLocalScheme ==
    probe.applied => ListingVariantsExactly({LocalScheme}, ProbedPath, probe.outcome)

\* witness of C13: 'This PC' without the trailing '/', written with a
\* backslash in the scheme prefix, resolved to the drive listing
C13_Witness ==
    /\ probe.applied
    /\ probe.path = <<"l","o","c","a","l",":","/",Sep>> \o ThisPC
    /\ probe.outcome.type = "drives"

HasSchemeIn(schemes, path) == \E scheme \in schemes : StartsWith(path, scheme)
SchemeCheckOf(schemes, path, outcome) ==
    IF HasSchemeIn(schemes, path) THEN outcome.error # "UnsupportedScheme"
    ELSE outcome.type = "error" /\ outcome.error = "UnsupportedScheme"

\* C14: a path that, separators normalized, does not begin with one of the
\* prefixes local://, gdrive://, dropbox://, onedrive://, combined:// fails
\* as an invalid path, and a path that begins with one of them is not
\* rejected by the scheme check
C14_KnownSchemesPassSchemeCheck ==
    probe.applied => SchemeCheckOf(KnownSchemes, ProbedPath, probe.outcome)

\* C14, amended: a path that, separators normalized, does not begin with
\* local:// fails as an invalid path (unsupported scheme), the paths that
\* begin with gdrive://, dropbox://, onedrive:// or combined:// among them;
\* a path that begins with local:// is not rejected by the scheme check
C14_OnlyLocalSchemePassesSchemeCheck ==
    probe.applied => SchemeCheckOf({LocalScheme}, ProbedPath, probe.outcome)

\* witness of C14: a local path written with a backslash in its prefix passes
\* the scheme check
C14_Witness ==
    /\ probe.applied
    /\ probe.path = <<"l","o","c","a","l",":","/",Sep>> \o sDesktop \o <<SL>>
    /\ probe.outcome.type = "entry"

(***************************************************************************)
(* Properties of the listings, checked under Spec on the reply of a        *)
(* listDirectory call.                                                     *)
(***************************************************************************)
IsListReply == reply.op = "list" /\ reply.error = "none"
ListedPath == reply.payload.sources[1]
ListedLocation == resolveLocalVirtualPath(reply.aliasBefore, ListedPath)
\* the call listed a concrete directory path, by readDirectory
IsDirectoryListReply ==
    /\ reply.op = "list"
    /\ ListedLocation.type = "entry"
    /\ ListedLocation.isDirectory

IsFolder(entry) == entry.type = "folder"
FoldersFirstThenByName(items) ==
    \A i, j \in 1..Len(items) :
        i < j =>
            /\ ~(~IsFolder(items[i]) /\ IsFolder(items[j]))
            /\ (IsFolder(items[i]) <=> IsFolder(items[j]))
               => localeCompare(items[i].name, items[j].name) <= 0
Survivors(trail) == { i \in 1..Len(trail) : trail[i].verdict = "listed" }
\* items are the surviving children of trail, each exactly once
PermutationOfSurvivors(items, trail) ==
    /\ Len(items) = Cardinality(Survivors(trail))
    /\ \A i \in Survivors(trail) :
          \E k \in 1..Len(items) :
              /\ items[k].name = trail[i].source
              /\ IsFolder(items[k]) <=> trail[i].isDirectory

\* C15: every list that listDirectory returns has its folder entries before
\* all others and each of the two groups in ascending order of name, and
\* (where children were read) is a permutation of the children whose stat
\* succeeded
C15_EveryListingSorted ==
    IsListReply =>
        /\ FoldersFirstThenByName(reply.items)
        /\ IsDirectoryListReply => PermutationOfSurvivors(reply.items, reply.trail)

\* C15, amended: every list that listDirectory returns for a concrete
\* directory (the list readDirectory makes) has its folder entries before
\* all others and each of the two groups in ascending order of name, and is
\* a permutation of the children whose stat succeeded
C15_DirectoryListingSorted ==
    (IsListReply /\ IsDirectoryListReply) =>
        /\ FoldersFirstThenByName(reply.items)
        /\ PermutationOfSurvivors(reply.items, reply.trail)

\* witness of C15: a directory listed with two folders and a file, the
\* folders first
C15_Witness ==
    /\ IsListReply /\ IsDirectoryListReply
    /\ Len(reply.items) = 3
    /\ IsFolder(reply.items[1]) /\ IsFolder(reply.items[2]) /\ ~IsFolder(reply.items[3])
    /\ localeCompare(reply.items[3].name, reply.items[1].name) < 0

ChildNames(f, p) == { PathBasename(child) : child \in Children(f, p) }
NamesOf(items) == { items[k].name : k \in 1..Len(items) }
StatFailures(trail) == { i \in 1..Len(trail) : trail[i].verdict = "statFailed" }

\* C16: reading a directory never fails: when the directory itself cannot be
\* read the list is empty, and when the stat of a child fails, the child
\* having been deleted meanwhile, that child alone is missing from the list
\* and every other child is in it
C16_ReadDirectoryNeverFails ==
    IsDirectoryListReply =>
        /\ reply.error = "none"
        /\ ~IsDir(reply.fsBefore, ListedLocation.fsPath) => reply.items = <<>>
        /\ IsDir(reply.fsBefore, ListedLocation.fsPath) =>
              /\ { reply.trail[i].source : i \in 1..Len(reply.trail) }
                     = ChildNames(reply.fsBefore, ListedLocation.fsPath)
              /\ \A i \in StatFailures(reply.trail) :
                    /\ reply.trail[i].sourceFs \notin DOMAIN fs
                    /\ reply.trail[i].source \notin NamesOf(reply.items)
              /\ NamesOf(reply.items)
                     = ChildNames(reply.fsBefore, ListedLocation.fsPath)
                           \ { reply.trail[i].source : i \in StatFailures(reply.trail) }
              /\ Len(reply.items) = Cardinality(NamesOf(reply.items))

\* witness of C16: one child deleted before its stat, two others listed
C16_Witness ==
    /\ IsDirectoryListReply
    /\ Cardinality(StatFailures(reply.trail)) = 1
    /\ Len(reply.items) = 2

\* C17: every entry of a listing has the id of its own path; listing the
\* same location again, nothing having changed, gives the same entries with
\* the same ids; and two entries with different paths have different ids
C17_IdOfOwnPath ==
    IsListReply =>
        /\ \A k \in 1..Len(reply.items) :
              reply.items[k].id = createIdForPath(reply.items[k].path)
        /\ fs = reply.fsBefore =>
              LET again == handleListDirectory(fs, driveAliasMap, ListedPath, {}).items
              IN /\ Len(again) = Len(reply.items)
                 /\ \A k \in 1..Len(again) :
                       again[k].path = reply.items[k].path /\ again[k].id = reply.items[k].id
        /\ \A k, m \in 1..Len(reply.items) :
              reply.items[k].path # reply.items[m].path
              => reply.items[k].id # reply.items[m].id

\* witness of C17: a directory listed with three entries, nothing lost
C17_Witness ==
    /\ IsListReply /\ IsDirectoryListReply
    /\ fs = reply.fsBefore
    /\ Len(reply.items) = 3
    /\ reply.items[1].id # reply.items[2].id

\* the directory entries of a copy or move that were transferred, in order
DoneVisits == SelectSeq(reply.trail, LAMBDA visit : visit.verdict = "done")
SlashIffDirectory(virtualPath, isDirectory) == EndsWith(virtualPath, <<SL>>) <=> isDirectory

\* C18: the path of every entry of a listing and the destination of every
\* result item of a copy or move ends in '/' if and only if it stands for a
\* directory: the child read from the disk, an existing special folder or
\* drive root or the This PC container, and the transferred entry at its
\* target
C18_TrailingSlashIffDirectory ==
    /\ (IsListReply /\ IsDirectoryListReply) =>
           \A k \in 1..Len(reply.items) :
               SlashIffDirectory(reply.items[k].path,
                                 IsDir(reply.fsBefore,
                                       PathJoin(ListedLocation.fsPath, <<reply.items[k].name>>)))
    /\ (IsListReply /\ ~IsDirectoryListReply) =>
           \A k \in 1..Len(reply.items) :
               SlashIffDirectory(
                   reply.items[k].path,
                   LET place == resolveLocalVirtualPath(driveAliasMap, reply.items[k].path)
                   IN place.type = "drives" \/ (place.type = "entry" /\ IsDir(fs, place.fsPath)))
    /\ (IsCopyOrMoveReply /\ reply.error = "none") =>
           /\ Len(reply.items) = Len(DoneVisits)
           /\ \A k \in 1..Len(reply.items) :
                 SlashIffDirectory(reply.items[k].destination,
                                   IsDir(fs, DoneVisits[k].targetFs))

\* witness of C18: a copy or move that returns a directory and a file
C18_Witness ==
    /\ IsCopyOrMoveReply /\ reply.error = "none"
    /\ Len(reply.items) = 2
    /\ EndsWith(reply.items[1].destination, <<SL>>)
    /\ ~EndsWith(reply.items[2].destination, <<SL>>)
    /\ IsFile(fs, DoneVisits[2].targetFs)

\* C19: whatever call runs, no label leaves the alias map and the letter of
\* a label in it stays the same
C19_AliasMapOnlyGrows ==
    [][\A label \in DOMAIN driveAliasMap :
           /\ label \in DOMAIN driveAliasMap'
           /\ driveAliasMap'[label] = driveAliasMap[label]]_vars

\* witness of C19: a drive listing has written the label that a resolution
\* had entered before, and the map holds both labels
C19_Witness ==
    /\ reply.op = "list"
    /\ ListedLocation.type = "drives"
    /\ DriveLabel(sDrive, DriveD) \in DOMAIN reply.aliasBefore
    /\ driveAliasMap = reply.aliasBefore
    /\ Cardinality(DOMAIN driveAliasMap) = 2

(***************************************************************************)
(* Properties of the catalog of special locations, checked under           *)
(* CatalogSpec on the replies of listDirectory and getLocalShortcuts.      *)
(***************************************************************************)
DeclaredLabels == <<sDesktop, sDocuments, sDownloads, sMusic, sPictures, sVideos>>
ProbePasses(f, label) == Exists(f, PathJoin(HomeDir, <<label>>))
PassingLabels(f) == SelectSeq(DeclaredLabels, LAMBDA label : ProbePasses(f, label))
ExpectedShortcuts(f) ==
    [i \in 1..Len(PassingLabels(f)) |->
        [name |-> PassingLabels(f)[i], path |-> LocalScheme \o PassingLabels(f)[i] \o <<SL>>]]
        \o <<[name |-> ThisPC, path |-> LocalScheme \o ThisPC \o <<SL>>]>>
NameAndPath(items) == [i \in 1..Len(items) |-> [name |-> items[i].name, path |-> items[i].path]]
IsRootListReply == reply.op = "list" /\ ListedLocation.type = "root"
IsShortcutsReply == reply.op = "shortcuts"

\* C21: listing the root returns one folder entry for every special folder
\* whose real path passes the access probe, in the order Desktop, Documents,
\* Downloads, Music, Pictures, Videos, and one "This PC" entry behind them;
\* getLocalShortcuts returns the {name, path} pairs of exactly that sequence
\* and never fails
C21_RootListingAndShortcuts ==
    /\ IsRootListReply =>
          /\ reply.error = "none"
          /\ NameAndPath(reply.items) = ExpectedShortcuts(reply.fsBefore)
          /\ \A i \in 1..Len(reply.items) : IsFolder(reply.items[i])
    /\ IsShortcutsReply =>
          /\ reply.error = "none"
          /\ reply.items = ExpectedShortcuts(reply.fsBefore)

\* witness of C21: the shortcuts of a disk without Desktop and Documents, with
\* Music and Videos: Music, Videos, This PC
C21_Witness ==
    /\ IsShortcutsReply
    /\ ~ProbePasses(reply.fsBefore, sDesktop)
    /\ Len(reply.items) = 3
    /\ reply.items[1].name = sMusic
    /\ reply.items[2].name = sVideos
    /\ reply.items[3].name = ThisPC

IsDrivesListReply == reply.op = "list" /\ ListedLocation.type = "drives"
AllDriveLetters == { <<UpperLetters[i], ":">> : i \in 1..26 }
ReadableDrives(f) == { drive \in AllDriveLetters : Exists(f, RealPath(drive, <<>>)) }
ExpectedDrives(f) == ReadableDrives(f) \cup {systemDrive}
ExpectedDriveName(drive) ==
    (IF drive = systemDrive THEN <<"L","o","c","a","l"," ","D","i","s","k">>
     ELSE <<"D","r","i","v","e">>) \o <<" ", "(">> \o drive \o <<")">>
IsDriveEntryOf(entry, drive) ==
    /\ entry.name = ExpectedDriveName(drive)
    /\ IsFolder(entry)
    /\ entry.path = LocalScheme \o ThisPC \o <<SL>> \o ExpectedDriveName(drive) \o <<SL>>
    /\ ExpectedDriveName(drive) \in DOMAIN driveAliasMap
    /\ driveAliasMap[ExpectedDriveName(drive)] = drive

\* C22: listing the drives returns one folder entry for every drive letter
\* A-Z whose root can be read and one for the system drive whether or not its
\* root can be read, each drive once; the system drive is named
\* "Local Disk (X:)" and every other "Drive (X:)"; the entries are in
\* ascending order of name; and after the call every returned name is bound
\* to its drive letter in the alias map
C22_DriveListing ==
    IsDrivesListReply =>
        /\ reply.error = "none"
        /\ Len(reply.items) = Cardinality(ExpectedDrives(reply.fsBefore))
        /\ \A drive \in ExpectedDrives(reply.fsBefore) :
              \E k \in 1..Len(reply.items) : IsDriveEntryOf(reply.items[k], drive)
        /\ \A i, j \in 1..Len(reply.items) :
              i < j => localeCompare(reply.items[i].name, reply.items[j].name) < 0

\* witness of C22: the drives of a disk whose system drive cannot be read,
\* with D: and E:, are listed as Drive (D:), Drive (E:), Local Disk (C:)
C22_Witness ==
    /\ IsDrivesListReply
    /\ ~Exists(reply.fsBefore, RealPath(systemDrive, <<>>))
    /\ Len(reply.items) = 3
    /\ reply.items[1].name = ExpectedDriveName(DriveD)
    /\ reply.items[2].name = ExpectedDriveName(DriveE)
    /\ reply.items[3].name = ExpectedDriveName(systemDrive)

(***************************************************************************)
(* Listing and resolving together, checked under Spec.                     *)
(***************************************************************************)
ResolvedBack(entry) == resolveLocalVirtualPath(driveAliasMap, entry.path)
RoundTrips(entry) ==
    /\ ResolvedBack(entry).type = "entry"
    /\ ResolvedBack(entry).fsPath = PathJoin(ListedLocation.fsPath, <<entry.name>>)
    /\ ResolvedBack(entry).isDirectory = IsFolder(entry)
\* the listed directory is a special folder or a drive root itself
IsBaseDirectory ==
    \/ \E i \in 1..Len(specialFolders) : ListedLocation.fsPath = specialFolders[i].fsPath
    \/ ListedLocation.fsPath.segs = <<>>

\* C23: for every directory path that resolves to a concrete entry, at any
\* depth below a special folder or drive root, the path of every entry that
\* listDirectory returns resolves to the listed directory's real path joined
\* with the entry's name, as a directory exactly when the entry is a folder
C23_ListedPathsResolveBack ==
    (IsListReply /\ IsDirectoryListReply) =>
        \A k \in 1..Len(reply.items) : RoundTrips(reply.items[k])

\* C23 holds of the listings of the special folders and drive roots themselves
C23_HoldsForBaseDirectories ==
    (IsListReply /\ IsDirectoryListReply /\ IsBaseDirectory) =>
        \A k \in 1..Len(reply.items) : RoundTrips(reply.items[k])

\* the listings of a special folder and of a drive root, with entries
C23_BaseDirectoryListed ==
    /\ IsListReply /\ IsDirectoryListReply /\ IsBaseDirectory
    /\ Len(reply.items) = 3

(***************************************************************************)
(* Properties of moveEntry taken step by step, checked under               *)
(* MoveEntrySpec.                                                          *)
(***************************************************************************)
MovedTree == Subtree(task.start, task.sourceFs)
\* the entry as it was when the move started is at place, node for node
CompleteAt(place) ==
    \A q \in MovedTree :
        /\ Exists(fs, Rebase(q, task.sourceFs, place))
        /\ fs[Rebase(q, task.sourceFs, place)] = task.start[q]

\* C24: in every state of a move, those after a failed step and after the
\* death of the process included, the moved entry is complete at the source
\* or complete at the destination; the source is deleted only when the copy
\* has succeeded, so while and after it is deleted the destination is complete
C24_CompleteAtSourceOrDestination ==
    task.pc # "none" =>
        /\ CompleteAt(task.sourceFs) \/ CompleteAt(task.destinationFs)
        /\ task.pc = "rm" => CompleteAt(task.destinationFs)

\* witness of C24: the process died while the fallback deleted a directory:
\* part of the source is gone and the destination is complete
C24_Witness ==
    /\ task.pc = "crashed"
    /\ IsDir(task.start, task.sourceFs)
    /\ Exists(fs, task.sourceFs)
    /\ ~CompleteAt(task.sourceFs)
    /\ CompleteAt(task.destinationFs)

RenameAttempted == Len(task.log) >= 2
RenameResult == task.log[2].error
\* the calls of the fallback: those of copyEntry and deleteEntry
IsFallbackCall(k) ==
    \/ task.log[k].op \in {"stat", "cp", "copyFile", "rm"}
    \/ task.log[k].op = "mkdir" /\ k > 1

\* C25: moveEntry makes the destination's parent and then attempts the rename
\* before anything else; it goes on to copy and delete only when the rename
\* failed with EXDEV; when the rename succeeded the move is done with no copy
\* and no delete; when the rename failed with another error the move fails
\* with that error, with no copy and no delete, the source left as it was
C25_RenameFirstFallbackOnlyOnExdev ==
    /\ Len(task.log) >= 1 => task.log[1].op = "mkdir"
    /\ RenameAttempted => task.log[2].op = "rename"
    /\ \A k \in 1..Len(task.log) :
          IsFallbackCall(k) => (k > 2 /\ RenameResult = "EXDEV")
    /\ task.pc \in {"stat", "cp", "mkdirParent", "copyFile", "rm"}
          => (RenameAttempted /\ RenameResult = "EXDEV")
    /\ (RenameAttempted /\ RenameResult = "none")
          => (task.pc = "done" /\ task.error = "none" /\ Len(task.log) = 2)
    /\ (RenameAttempted /\ RenameResult \notin {"none", "EXDEV"})
          => /\ task.pc = "failed"
             /\ task.error = RenameResult
             /\ Len(task.log) = 2
             /\ CompleteAt(task.sourceFs)

\* witness of C25: a rename that failed because a directory is in the way:
\* the move failed with that error after the two calls
C25_Witness ==
    /\ task.pc = "failed"
    /\ RenameAttempted
    /\ RenameResult = "EPERM"
    /\ task.sourceFs.drive = task.destinationFs.drive
    /\ IsDir(fs, task.destinationFs)

(***************************************************************************)
(* Properties of the batch loops, checked under Spec on the reply's trail  *)
(* (one visit per item the loop reached) and log (the fs calls in order).  *)
(***************************************************************************)
IsBatchReply == reply.op \in {"copy", "move", "delete"} /\ HasInput
WentOn(visit) == visit.verdict \in {"done", "skipped"}
WasResolved(visit) == visit.verdict \notin {"unresolved", "unsupported"}
\* the fs call is one made for the visited item: on its source, or the mkdir
\* of the directory its target goes into
IsCallFor(call, visit) ==
    \/ call.path = visit.sourceFs
    \/ call.op = "mkdir" /\ call.path = PathDirname(visit.targetFs)
\* the calls made for the destination before the loop starts
CallsBeforeLoop ==
    IF reply.op = "delete" \/ reply.log = <<>> THEN 0
    ELSE IF Len(reply.log) >= 2 /\ reply.log[2].op = "mkdir" THEN 2
    ELSE 1
\* from call k on, the log is the calls for item i, then those for item
\* i + 1, and so on to the last item reached, with no call left over; an item
\* has calls exactly if it was resolved, and they start on its source
RECURSIVE InItemOrder(_, _)
InItemOrder(i, k) ==
    IF i > Len(reply.trail) THEN k = Len(reply.log) + 1
    ELSE \E e \in (k - 1)..Len(reply.log) :
            /\ (e >= k) <=> WasResolved(reply.trail[i])
            /\ e >= k =>
                  /\ reply.log[k].path = reply.trail[i].sourceFs
                  /\ reply.log[k].op = (IF reply.op = "delete" THEN "rm" ELSE "stat")
            /\ \A j \in k..e : IsCallFor(reply.log[j], reply.trail[i])
            /\ InItemOrder(i + 1, e + 1)
EarlierEffectsRemain ==
    \A i \in 1..(Len(reply.trail) - 1) :
        reply.trail[i].verdict = "done" =>
            IF reply.op = "delete" THEN ~Exists(fs, reply.trail[i].sourceFs)
            ELSE Exists(fs, reply.trail[i].targetFs)

\* C26: copy, move and delete reach the items of the batch in input order
\* and make the fs calls of one item only when those of the item before are
\* over; when an item fails the call fails without result items, what was
\* done for the items before it remains, and no later item is reached: no
\* fs call is made for it
C26_BatchInOrderAbortOnFailure ==
    IsBatchReply =>
        /\ Len(reply.trail) <= Len(reply.payload.sources)
        /\ \A i \in 1..Len(reply.trail) : reply.trail[i].source = reply.payload.sources[i]
        /\ \A i \in 1..(Len(reply.trail) - 1) : WentOn(reply.trail[i])
        /\ InItemOrder(1, CallsBeforeLoop + 1)
        /\ reply.error = "none" =>
              /\ Len(reply.trail) = Len(reply.payload.sources)
              /\ \A i \in 1..Len(reply.trail) : WentOn(reply.trail[i])
        /\ reply.error # "none" =>
              /\ reply.items = <<>>
              /\ reply.trail # <<>> => ~WentOn(reply.trail[Len(reply.trail)])
              /\ EarlierEffectsRemain

\* witness of C26: a copy or move of two sources whose first source was
\* transferred and whose second failed in its fs call
C26_Witness ==
    /\ IsCopyOrMoveReply
    /\ reply.error # "none"
    /\ Len(reply.trail) = 2
    /\ reply.trail[1].verdict = "done"
    /\ reply.trail[2].verdict = "failed"
    /\ Exists(fs, reply.trail[1].targetFs)
    /\ ~Exists(reply.fsBefore, reply.trail[1].targetFs)

\* a batch that failed at its first item with a second item behind it
C26_LaterItemNotReached ==
    /\ IsBatchReply
    /\ reply.error # "none"
    /\ Len(reply.payload.sources) = 2
    /\ Len(reply.trail) = 1
    /\ reply.trail[1].verdict = "failed"
    /\ IsConcrete(reply.payload.sources[2])

(***************************************************************************)
(* Containment of the resolved path, checked under ResolverSpec.           *)
(***************************************************************************)
IsUnderPrefix(path, folder) ==
    \/ path \in {folder.virtual, DropLast(folder.virtual)}
    \/ StartsWith(path, folder.virtual)
HasParentSegment(rest) ==
    \E n \in 1..Len(SegmentsOf(rest)) : SegmentsOf(rest)[n] = <<".", ".">>
ContainedInFolder(folder, path, outcome) ==
    IsUnderPrefix(path, folder) => IsUnder(folder.fsPath, outcome.fsPath)
ContainedOnDrive(letter, outcome) == IsUnder(RealPath(letter, <<>>), outcome.fsPath)

\* C27: for every path the resolver accepts as a concrete entry, whatever
\* its segments, "." and ".." included: under a special folder's virtual
\* prefix the real path is the folder's real path or lies below it, and
\* under a drive it is the drive's root or lies below it
C27_ResolvedPathContained ==
    (probe.applied /\ probe.outcome.type = "entry") =>
        /\ \A k \in 1..Len(specialFolders) :
              ContainedInFolder(specialFolders[k], ProbedPath, probe.outcome)
        /\ IsDrivePath =>
              ContainedOnDrive(DerivedLetter(probe.aliasBefore, LabelOf(BelowThisPC)),
                               probe.outcome)

\* C27 holds of the paths under a drive, and of the paths under a special
\* folder's prefix that have no ".." segment
C27_ContainedWithoutParentSegments ==
    (probe.applied /\ probe.outcome.type = "entry") =>
        /\ \A k \in 1..Len(specialFolders) :
              HasParentSegment(Slice(ProbedPath, Len(specialFolders[k].virtual)))
              \/ ContainedInFolder(specialFolders[k], ProbedPath, probe.outcome)
        /\ IsDrivePath =>
              ContainedOnDrive(DerivedLetter(probe.aliasBefore, LabelOf(BelowThisPC)),
                               probe.outcome)

\* a path with ".." under a drive, resolved on that drive
C27_ParentSegmentOnDrive ==
    /\ probe.applied
    /\ probe.outcome.type = "entry"
    /\ IsDrivePath
    /\ HasParentSegment(BelowThisPC)
    /\ probe.outcome.fsPath = RealPath(DriveD, <<sDocs>>)

(***************************************************************************)
(* The content a copy leaves, checked under Spec.                          *)
(***************************************************************************)
IsSuccessfulCopy == reply.op = "copy" /\ reply.error = "none"
ItemSourceFs(item) == resolveLocalVirtualPath(reply.aliasBefore, item.source).fsPath
ItemDestinationFs(item) == resolveLocalVirtualPath(driveAliasMap, item.destination).fsPath
\* what was at src when the call started is at dst now, node for node
HoldsContentOf(src, dst) ==
    /\ Exists(reply.fsBefore, src)
    /\ \A q \in Subtree(reply.fsBefore, src) :
          /\ Exists(fs, Rebase(q, src, dst))
          /\ fs[Rebase(q, src, dst)] = reply.fsBefore[q]
DistinctDestinations ==
    \A i, j \in 1..Len(reply.items) :
        i # j => reply.items[i].destination # reply.items[j].destination

\* C28: after a successful copy, for every item of the result the
\* destination's real path exists and holds what the source held when the
\* call started, whatever the list of sources, two sources of the same base
\* name from different directories included
C28_CopiedContentAtDestination ==
    IsSuccessfulCopy =>
        \A k \in 1..Len(reply.items) :
            HoldsContentOf(ItemSourceFs(reply.items[k]), ItemDestinationFs(reply.items[k]))

\* C28 holds of the results whose items have pairwise different destinations
C28_HoldsForDistinctDestinations ==
    (IsSuccessfulCopy /\ DistinctDestinations) =>
        \A k \in 1..Len(reply.items) :
            HoldsContentOf(ItemSourceFs(reply.items[k]), ItemDestinationFs(reply.items[k]))

\* a successful copy of a file and a directory
C28_TwoItemsCopied ==
    /\ IsSuccessfulCopy
    /\ DistinctDestinations
    /\ Len(reply.items) = 2
    /\ IsDir(reply.fsBefore, ItemSourceFs(reply.items[2]))

(***************************************************************************)
(* Properties of the sync controller, checked under SyncSpec and           *)
(* SyncLiveSpec.                                                           *)
(***************************************************************************)
Sleeping == { i \in 1..Len(triggers) : triggers[i].phase = "sleeping" }
TriggerArrives ==
    /\ Len(triggers') = Len(triggers) + 1
    /\ triggers'[Len(triggers')].kind = "trigger"
Opens == state.state = "idle" /\ state'.state = "syncing"
Closes == state.state = "syncing" /\ state'.state = "idle"
\* a triggerSync call that arrives while the state is syncing returns the
\* status as it is and starts nothing
ReturnsWhileSyncing ==
    (TriggerArrives /\ state.state = "syncing") =>
        /\ state' = state
        /\ triggers'[Len(triggers')].phase = "returned"
        /\ triggers'[Len(triggers')].result.state = "syncing"
        /\ triggers'[Len(triggers')].result.message = state.message
        /\ triggers'[Len(triggers')].result.pendingOperations = state.pendingOperations
        /\ state.lastSyncedAt # NullDate
              => triggers'[Len(triggers')].result.lastSyncedAt.iso = state.lastSyncedAt.ms
        /\ { i \in 1..Len(triggers') : triggers'[i].phase = "sleeping" } = Sleeping
\* a timer is set only by the step that opens a syncing period and fires only
\* in the step that closes it, one timer each; the state and lastSyncedAt
\* change in no other step
PeriodsOpenedAndClosedOnce ==
    /\ Opens =>
          /\ Sleeping = {}
          /\ Cardinality({ i \in 1..Len(triggers') : triggers'[i].phase = "sleeping" }) = 1
    /\ Closes =>
          /\ Cardinality(Sleeping) = 1
          /\ { i \in 1..Len(triggers') : triggers'[i].phase = "sleeping" } = {}
    /\ { i \in 1..Len(triggers') : triggers'[i].phase = "sleeping" } # Sleeping
          => (Opens \/ Closes)
    /\ state'.state # state.state => (Opens \/ Closes)
    /\ state'.lastSyncedAt # state.lastSyncedAt => Closes

\* C29: a triggerSync call arriving while the state is syncing returns the
\* current status and starts no other sync; however the calls interleave,
\* every syncing period is opened by one idle-to-syncing step that sets its
\* one timer and closed by the one syncing-to-idle step in which that timer
\* fires, and lastSyncedAt changes only in that closing step
C29_SyncReentrancy == [][ReturnsWhileSyncing /\ PeriodsOpenedAndClosedOnce]_vars

\* witness of C29: while the first triggerSync sleeps, a second one has
\* returned the syncing status
C29_Witness ==
    \E i, j \in 1..Len(triggers) :
        /\ i < j
        /\ triggers[i].phase = "sleeping"
        /\ triggers[j].kind = "trigger"
        /\ triggers[j].phase = "returned"
        /\ triggers[j].result.state = "syncing"
        /\ state.state = "syncing"

\* the state a syncing period ends in, lines 42-48
SyncedIdle ==
    /\ state.state = "idle"
    /\ state.lastSyncedAt # NullDate
    /\ state.pendingOperations = 0
    /\ state.conflicts = <<>>
\* the i-th call is a triggerSync call, and it has returned
IsTriggerCall(i) == Len(triggers) >= i /\ triggers[i].kind = "trigger"
HasReturned(i) == IsTriggerCall(i) /\ triggers[i].phase = "returned"

\* C30: when the timers that are due fire and time passes, a syncing state is
\* always followed by an idle state with lastSyncedAt set, no pending
\* operation and no conflict; every triggerSync call, the one that started
\* the sync as well as one that arrived during it, returns in the end; and the
\* state is never 'error'
C30_SyncEventuallyIdle ==
    /\ (state.state = "syncing") ~> SyncedIdle
    /\ \A i \in 1..MaxTriggers : IsTriggerCall(i) ~> HasReturned(i)
    /\ [](state.state \in {"idle", "syncing"})

\* witness of C30: a sync has run to its end; the call that started it has
\* returned the idle status with lastSyncedAt set and a call that arrived
\* during it had returned the syncing status
C30_Witness ==
    /\ SyncedIdle
    /\ Sleeping = {}
    /\ \E i, j \in 1..Len(triggers) :
          /\ i < j
          /\ HasReturned(i)
          /\ triggers[i].result.state = "idle"
          /\ triggers[i].result.lastSyncedAt # NullDate
          /\ HasReturned(j)
          /\ triggers[j].result.state = "syncing"
          /\ triggers[j].due < triggers[i].due + Delay

====
